---- MODULE Spec2Model ----
(***************************************************************************)
(* A model of the Program runtime of src/tea.go: Run's startup, the event  *)
(* loop, the command executor, the signal handler, Send/Quit/Kill/Wait and *)
(* the shutdown coordinator.  Every goroutine is a process with a program  *)
(* counter; an unbuffered channel hand-off is one joint action of the      *)
(* sender and the receiver.                                                *)
(***************************************************************************)
EXTENDS Integers, Sequences, FiniteSets, TLC

\* ------------------------------------------------------------------ bounds

\* Non-nil commands the model's Init and Update may return in one run.
MaxCmds == 1

\* The three `go p.Send(...)` of Run's startup (ColorProfileMsg, WindowSizeMsg,
\* EnvMsg): goroutines parked in Send before the event loop starts.
StartupSends == 3

\* Commands in the BatchMsg or sequenceMsg a run of the loop is given.
MaxJobCmds == 3

\* Commands in the BatchMsg or sequenceMsg a command of a sequence returns.
MaxNested == 2

\* Calls of ReleaseTerminal in one run.
MaxReleases == 1

\* Signals received while signal handling is suspended.
MaxSignals == 2

\* ------------------------------------------------------------------ values

\* Messages by their effect on the loop: QuitMsg, InterruptMsg, BatchMsg and
\* every other message (those only reach Update).
MsgKinds == {"quit", "interrupt", "batch", "other"}

\* Commands by what they do when invoked: nil, or a Cmd returning a message of
\* one kind, or a Cmd that panics.
CmdKinds == {"cQuit", "cInterrupt", "cOther", "cBatch", "cPanic"}

\* The message a command returns.
CmdMsg(c) ==
    CASE c = "cQuit"      -> "quit"
      [] c = "cInterrupt" -> "interrupt"
      [] c = "cBatch"     -> "batch"
      [] OTHER            -> "other"

\* The commands inside the BatchMsg a cBatch command returns: one nil, one not.
BatchCmds == <<"nil", "cOther">>

\* What a returned command takes of the bound MaxCmds.
CmdCost(c) == IF c = "nil" THEN 0 ELSE 1

HandlerNames == {"signals", "initCmd", "resize", "commands"}

\* The modes of the mode table that the loop treats differently: the alt screen
\* and the cursor go through the renderer, grapheme clustering is queried, and
\* bracketed paste stands for the modes of the `default:` cases.
Modes == {"AltScreenSaveCursor", "TextCursorEnable", "GraphemeClustering", "BracketedPaste"}

\* ansi.ModeSetting: the value Modes.Get returns, NotRecognized for no entry.
Settings == {"NotRecognized", "Set", "Reset", "PermanentlySet", "PermanentlyReset"}

IsSet(v) == v \in {"Set", "PermanentlySet"}

IsReset(v) == v \in {"Reset", "PermanentlyReset"}

\* The startup options that touch the mode table.
ModeOptions == {"withAltScreen", "withoutBracketedPaste"}

\* The goroutines that call Program.Send from outside the program.
Senders == {"s1"}

VARIABLES
    runPc,        \* where the goroutine running Run is
    model,        \* the model held by Run/eventLoop: the number of Updates applied
    loopErr,      \* the error eventLoop returned
    loopExit,     \* which case ended eventLoop
    retModel,     \* Run's results: <<m>> for model m, <<>> for a nil Model
    retErr,
    pendingCmd,   \* the command eventLoop is handing to cmds (line 734)
    batchLeft,    \* the commands of a BatchMsg still to hand to cmds (line 667)
    nCmds,        \* non-nil commands returned so far
    runKilled,    \* Run's local `killed`
    ctxDone,      \* p.ctx is cancelled
    once,         \* p.shutdownOnce
    shutPc,       \* the step the shutdown body is at
    shutBy,       \* the goroutine executing the body
    shutKill,     \* the body's kill argument
    shutLog,      \* the teardown steps executed, in order
    hSnap,        \* the handler channels channelHandlers.shutdown waited for
    handlers,     \* p.handlers.handlers
    hpc,          \* the goroutine behind each handler channel
    fwdCmd,       \* the command the initial-command forwarder holds
    inputReader,  \* p.inputReader != nil
    rendererSet,  \* p.renderer != nil
    rOnce,        \* p.once
    flushLoops,   \* flush-loop goroutines receiving on p.rendererDone
    termDirty,    \* Run changed the terminal state and it has not been restored
    finishedMade, \* p.finished has been made
    finishedBuf,  \* values buffered in p.finished
    nFinished,    \* sends on p.finished so far
    killPc,       \* Kill has been called
    killWhen,     \* the phase of Run at the call of Kill
    pend,         \* goroutines parked in Send, by kind of message
    cmdRun,       \* command goroutines inside cmd(), by command
    sendPc,       \* the outside callers of Send
    sendKind,
    sendWhen,
    waitPc,       \* the goroutine calling Wait
    waitChan,     \* the value of p.finished it read
    modes,        \* p.modes: the setting recorded for each mode
    lastMsg,      \* the control message eventLoop handled last
    lastDid,      \* what eventLoop did for it, in order
    tick,         \* flips with every control message handled
    startupOptions, \* p.startupOptions: the options the program was made with
    modeLog,      \* the mode messages eventLoop has handled, in order
    rendLog,      \* the renderer's mode methods called so far, in order
    goos,         \* runtime.GOOS of the build
    requested,    \* p.requestedEnhancements
    active,       \* p.activeEnhancements
    kbWait,       \* sendKeyboardEnhancementsMsg goroutines in their select
    kbSend,       \* those whose timer fired, in p.Send(KeyboardEnhancementsMsg{})
    kbSignal,     \* goroutines sending on p.keyboardc
    kbReply,      \* reports of the terminal on their way to the loop
    nReplies,     \* reports the terminal has made
    nKbMsgs,      \* enable and disable messages the loop has handled
    kbReqs,       \* the enhancements of the enable messages handled, in order
    kbDisabled,   \* a disable message has been handled
    kbConfirmed,  \* the report handled while the only negotiation was waiting
    jobForm,      \* the composite message sent to the loop: a batch or a sequence
    jobCmds,      \* its commands, in order
    jobPc,        \* where the message is: parked in Send, being fanned out, handled
    jobIdx,       \* the command the loop's range over a BatchMsg is at (line 667)
    cst,          \* where each command of the message is
    invoked,      \* how often each command has been invoked
    updLog,       \* the commands whose message reached Update, in order of arrival
    diag,         \* for each diagnostic printed: the terminal was unrestored then
    crashed,      \* a panic left a goroutine unrecovered: the process has died
    nestForm,     \* the message a command of the sequence returns: a batch or a sequence
    nestCmds,     \* its commands, in order
    nst,          \* where each of them is
    ignoreSignals, \* p.ignoreSignals is 1
    released,     \* ReleaseTerminal has returned and RestoreTerminal has not
    colors,       \* p.setBg, p.setFg, p.setCc: which of them is not nil
    restLog,      \* what the last RestoreTerminal wrote, in order
    restFrom,     \* the modes, enhancements and colours RestoreTerminal worked from
    nReleases,    \* calls of ReleaseTerminal so far
    sigLog,       \* each signal the handler received, with p.ignoreSignals then
    renders,      \* calls of p.render by eventLoop (line 736)
    finalRendered \* Run has rendered the final model (line 943)

runVars  == <<runPc, model, loopErr, loopExit, retModel, retErr, pendingCmd, batchLeft, nCmds,
             runKilled>>
shutVars == <<once, shutPc, shutBy, shutKill, shutLog, hSnap>>
hVars    == <<handlers, hpc, fwdCmd>>
termVars == <<inputReader, rendererSet, rOnce, flushLoops, termDirty>>
finVars  == <<finishedMade, finishedBuf, nFinished>>
killVars == <<killPc, killWhen>>
goVars   == <<pend, cmdRun>>
sendVars == <<sendPc, sendKind, sendWhen>>
waitVars == <<waitPc, waitChan>>
kbVars   == <<goos, requested, active, kbWait, kbSend, kbSignal, kbReply, nReplies,
             nKbMsgs, kbReqs, kbDisabled, kbConfirmed>>
jobVars  == <<jobForm, jobCmds, jobPc, jobIdx, cst, invoked, updLog, diag, crashed>>
nestVars == <<nestForm, nestCmds, nst>>
relVars  == <<ignoreSignals, released, colors, restLog, restFrom, nReleases, sigLog>>
turnVars == <<renders, finalRendered>>
extVars  == <<nestVars, relVars, turnVars>>
loopVars == <<lastMsg, lastDid, tick, startupOptions, modeLog, rendLog, kbVars, jobVars, extVars>>

vars == <<runVars, ctxDone, shutVars, hVars, termVars, finVars, killVars, goVars,
          sendVars, waitVars, modes, loopVars>>

\* The phase of Run: before it is called, while it runs, after it returned.
\* The zero value of KeyboardEnhancements (keyboard.go:10-38).
NoEnhancements == [kittyFlags |-> 0, modifyOtherKeys |-> 0]

\* NewProgram: no enhancements requested or active, p.keyboardc made, nothing
\* negotiated yet.
KbdFresh ==
    /\ requested = NoEnhancements
    /\ active = NoEnhancements
    /\ kbWait = 0
    /\ kbSend = 0
    /\ kbSignal = 0
    /\ kbReply = <<>>
    /\ nReplies = 0
    /\ nKbMsgs = 0
    /\ kbReqs = <<>>
    /\ kbDisabled = FALSE
    /\ kbConfirmed = <<>>

\* No BatchMsg or sequenceMsg has been sent to the program.
JobFresh ==
    /\ jobForm = "none"
    /\ jobCmds = <<>>
    /\ jobPc = "none"
    /\ jobIdx = 0
    /\ cst = <<>>
    /\ invoked = <<>>
    /\ updLog = <<>>
    /\ diag = <<>>
    /\ crashed = FALSE

\* No command has returned a BatchMsg or sequenceMsg to the sequence goroutine.
NestFresh ==
    /\ nestForm = "none"
    /\ nestCmds = <<>>
    /\ nst = <<>>

\* NewProgram: signals are not ignored, no colour is set, the terminal has not
\* been released.
RelFresh ==
    /\ ignoreSignals = FALSE
    /\ released = FALSE
    /\ colors = [c \in {"bg", "fg", "cc"} |-> FALSE]
    /\ restLog = <<>>
    /\ restFrom = <<>>
    /\ nReleases = 0
    /\ sigLog = <<>>

\* Nothing has been rendered.
TurnFresh == renders = 0 /\ finalRendered = FALSE

ExtFresh == NestFresh /\ RelFresh /\ TurnFresh

\* A panic that no deferred call recovers ends the process: no goroutine of it
\* takes another step.
Alive == ~crashed

Phase ==
    CASE runPc = "idle"     -> "before"
      [] runPc = "returned" -> "after"
      [] OTHER              -> "running"

\* NewProgram: nothing runs, the context is live, the Once values are fresh.
Init ==
    /\ runPc = "idle"
    /\ model = 0
    /\ loopErr = "none"
    /\ loopExit = "none"
    /\ retModel = <<>>
    /\ retErr = "none"
    /\ pendingCmd = "nil"
    /\ batchLeft = <<>>
    /\ nCmds = 0
    /\ runKilled = FALSE
    /\ ctxDone = FALSE
    /\ once = "fresh"
    /\ shutPc = "none"
    /\ shutBy = "none"
    /\ shutKill = FALSE
    /\ shutLog = <<>>
    /\ hSnap = {}
    /\ handlers = {}
    /\ hpc = [h \in HandlerNames |-> "off"]
    /\ fwdCmd = "nil"
    /\ inputReader = FALSE
    /\ rendererSet = FALSE
    /\ rOnce = "fresh"
    /\ flushLoops = 0
    /\ termDirty = FALSE
    /\ finishedMade = FALSE
    /\ finishedBuf = 0
    /\ nFinished = 0
    /\ killPc = "idle"
    /\ killWhen = "none"
    /\ pend = [k \in MsgKinds |-> 0]
    /\ cmdRun = [c \in CmdKinds |-> 0]
    /\ sendPc = [s \in Senders |-> "idle"]
    /\ sendKind = [s \in Senders |-> "none"]
    /\ sendWhen = [s \in Senders |-> "none"]
    /\ waitPc = "idle"
    /\ waitChan = "none"
    /\ modes = [m \in Modes |-> "NotRecognized"]
    /\ lastMsg = <<>>
    /\ lastDid = <<>>
    /\ tick = FALSE
    /\ startupOptions = {}
    /\ modeLog = <<>>
    /\ rendLog = <<>>
    /\ goos = "other"
    /\ KbdFresh
    /\ JobFresh
    /\ ExtFresh

\* ------------------------------------------------------- shutdown (994-1023)

\* A shutdown without the once guard of line 997.
OnceUnguarded == TRUE

\* sync.Once.Do runs its function only on the first call.
OnceFresh == once = "fresh"

\* p.shutdown(kill) called by goroutine `who` (line 997): the first caller
\* becomes the one that executes the body; any other blocks in Do until the
\* body has returned.
ShutdownCall(who, kill) ==
    IF OnceFresh
    THEN /\ once' = "running"
         /\ shutBy' = who
         /\ shutKill' = kill
         /\ shutPc' = "cancel"
         /\ UNCHANGED <<shutLog, hSnap>>
    ELSE UNCHANGED shutVars

\* Do returns to a caller once the body has run to its end.
ShutdownReturned == once = "done"

\* channelHandlers.shutdown holds the read lock from its start to its return;
\* channelHandlers.add takes the write lock.
HandlersLocked == shutPc = "handlers"

\* A shutdown that does not wait for the handler channels (line 1001 left out).
HandlersNotAwaited == TRUE

\* wg.Wait() returns when every handler channel of the list has been closed.
HandlersClosed == \A h \in handlers : hpc[h] = "closed"

\* Lines 998-1001: p.cancel(), then p.handlers.shutdown() takes the read lock
\* and waits.
ShutCancel ==
    /\ Alive
    /\ shutPc = "cancel"
    /\ ctxDone' = TRUE
    /\ shutLog' = Append(shutLog, "cancel")
    /\ shutPc' = "handlers"
    /\ UNCHANGED <<once, shutBy, shutKill, hSnap>>
    /\ UNCHANGED <<runVars, hVars, termVars, finVars, killVars, goVars, sendVars, waitVars, modes, loopVars>>

\* The steps of lines 1004-1012 for a Cancel() that returned `cancelled`.
InputSteps(cancelled) ==
    IF inputReader
    THEN <<"inputCancel">>
         \o (IF cancelled /\ ~shutKill THEN <<"waitReadLoop">> ELSE <<>>)
         \o <<"inputClose">>
    ELSE <<>>

\* Lines 1001-1012: p.handlers.shutdown() returns; the input reader is
\* cancelled, its read loop waited for, and it is closed.
ShutHandlers ==
    /\ Alive
    /\ shutPc = "handlers"
    /\ HandlersClosed
    /\ hSnap' = handlers
    /\ \E cancelled \in BOOLEAN :
        shutLog' = Append(shutLog, "handlers") \o InputSteps(cancelled)
    /\ shutPc' = "renderer"
    /\ UNCHANGED <<once, shutBy, shutKill>>
    /\ UNCHANGED <<runVars, ctxDone, hVars, termVars, finVars, killVars, goVars, sendVars, waitVars, modes, loopVars>>

\* The steps of stopRenderer(kill), lines 1175-1187.
RendererSteps(kill) ==
    <<"rendererStop">> \o (IF kill THEN <<>> ELSE <<"flush">>)

\* A stopRenderer that sends on p.rendererDone at every call.
StopRendererNoOnce ==
    /\ flushLoops > 0
    /\ rOnce' = "done"
    /\ flushLoops' = flushLoops - 1

\* stopRenderer: p.once.Do sends on the unbuffered p.rendererDone, which a flush
\* loop must receive; a p.once already done sends nothing.
StopRenderer ==
    /\ rOnce = "done" \/ flushLoops > 0
    /\ rOnce' = "done"
    /\ flushLoops' = IF rOnce = "done" THEN flushLoops ELSE flushLoops - 1

\* p.restoreTerminalState(): the terminal is put back into its startup state.
RestoreTerminalState == termDirty' = FALSE

\* Line 1019: the completion signal is sent unless this is a hard kill.
SignalsFinished(kill) == ~kill

\* Lines 1014-1022: the renderer is stopped, the terminal state restored, the
\* completion signal put into p.finished (which has room for one value), and
\* Do returns.
ShutRenderer ==
    /\ Alive
    /\ shutPc = "renderer"
    /\ IF rendererSet
       THEN StopRenderer
       ELSE UNCHANGED <<rOnce, flushLoops>>
    /\ RestoreTerminalState
    /\ IF SignalsFinished(shutKill)
       THEN /\ finishedMade
            /\ finishedBuf < 1
            /\ finishedBuf' = finishedBuf + 1
            /\ nFinished' = nFinished + 1
       ELSE UNCHANGED <<finishedBuf, nFinished>>
    /\ shutLog' = shutLog
                  \o (IF rendererSet THEN RendererSteps(shutKill) ELSE <<>>)
                  \o <<"restore">>
                  \o (IF SignalsFinished(shutKill) THEN <<"finished">> ELSE <<>>)
    /\ shutPc' = "done"
    /\ once' = "done"
    /\ UNCHANGED <<shutBy, shutKill, hSnap, finishedMade, inputReader, rendererSet>>
    /\ UNCHANGED <<runVars, ctxDone, hVars, killVars, goVars, sendVars, waitVars, modes, loopVars>>

\* ------------------------------------------------------------ Kill (980-982)

\* A goroutine calls Kill: p.shutdown(true).
KillCall ==
    /\ Alive
    /\ killPc = "idle"
    /\ killPc' = "called"
    /\ killWhen' = Phase
    /\ ShutdownCall("kill", TRUE)
    /\ UNCHANGED <<runVars, ctxDone, hVars, termVars, finVars, goVars, sendVars, waitVars, modes, loopVars>>

\* Kill has returned: its p.shutdown(true) returns once the body has run.
KillReturned == killPc = "called" /\ ShutdownReturned

\* The context given with the context option is cancelled by its owner.
ExtCancel ==
    /\ ~ctxDone
    /\ ctxDone' = TRUE
    /\ UNCHANGED <<runVars, killVars, shutVars, hVars, termVars, finVars, goVars, sendVars, waitVars, modes, loopVars>>

\* ------------------------------------------------------------ Run (758-950)

\* Lines 759-807: the handler list is reset, p.errs and p.finished are made,
\* the signal handler is started and registered.
RunCall ==
    /\ runPc = "idle"
    /\ ~HandlersLocked
    /\ handlers' = {"signals"}
    /\ hpc' = [hpc EXCEPT !["signals"] = "listen"]
    /\ finishedMade' = TRUE
    /\ runPc' = "initTerm"
    /\ UNCHANGED <<model, loopErr, loopExit, retModel, retErr, pendingCmd, batchLeft, nCmds, runKilled>>
    /\ UNCHANGED <<fwdCmd, finishedBuf, nFinished>>
    /\ UNCHANGED <<ctxDone, shutVars, termVars, killVars, goVars, sendVars, waitVars, modes, loopVars>>

\* p.initTerminal(): the output is put into raw mode.
InitTerminal == termDirty' = TRUE

\* Lines 816-858: the terminal is initialised, the renderer made, the three
\* startup messages sent from their own goroutines, the input reader set up.
RunInitTerminal ==
    /\ runPc = "initTerm"
    /\ InitTerminal
    /\ rendererSet' = TRUE
    /\ inputReader' = TRUE
    /\ pend' = [pend EXCEPT !["other"] = @ + StartupSends]
    /\ runPc' = "startup"
    /\ UNCHANGED <<model, loopErr, loopExit, retModel, retErr, pendingCmd, batchLeft, nCmds, runKilled>>
    /\ UNCHANGED <<rOnce, flushLoops, cmdRun>>
    /\ UNCHANGED <<ctxDone, shutVars, hVars, finVars, killVars, sendVars, waitVars, modes, loopVars>>

\* p.initialModel: the model before any Update.
InitialModel == <<0>>

\* Lines 787, 796, 817, 839, 856 with 764: Run returns p.initialModel and the
\* error of the failed call, and its deferred p.cancel() runs.  No other
\* deferred call of Run acts: recoverFromPanic finds no panic, and neither
\* p.shutdown nor restoreTerminalState is called on these paths.
StartupFails ==
    /\ retModel' = InitialModel
    /\ retErr' = "errStartup"
    /\ ctxDone' = TRUE
    /\ runPc' = "returned"
    /\ UNCHANGED <<model, loopErr, loopExit, pendingCmd, batchLeft, nCmds, runKilled>>

\* Lines 759-787 and 794-796: openInputTTY fails, before the signal handler is
\* started.
RunOpenTTYFails ==
    /\ Alive
    /\ runPc = "idle"
    /\ handlers' = {}
    /\ finishedMade' = TRUE
    /\ StartupFails
    /\ UNCHANGED <<hpc, fwdCmd, finishedBuf, nFinished>>
    /\ UNCHANGED <<shutVars, termVars, killVars, goVars, sendVars, waitVars, modes, loopVars>>

\* Lines 816-818: p.initTerminal() fails and has changed nothing.
RunInitTerminalFails ==
    /\ Alive
    /\ runPc = "initTerm"
    /\ StartupFails
    /\ UNCHANGED <<shutVars, hVars, termVars, finVars, killVars, goVars, sendVars, waitVars, modes, loopVars>>

\* Lines 816-840: the terminal is initialised, the renderer made, the colour
\* profile sent from its goroutine, and term.GetSize fails.
RunGetSizeFails ==
    /\ Alive
    /\ runPc = "initTerm"
    /\ InitTerminal
    /\ rendererSet' = TRUE
    /\ pend' = [pend EXCEPT !["other"] = @ + 1]
    /\ StartupFails
    /\ UNCHANGED <<inputReader, rOnce, flushLoops, cmdRun>>
    /\ UNCHANGED <<shutVars, hVars, finVars, killVars, sendVars, waitVars, modes, loopVars>>

\* Lines 816-857: the terminal is initialised, the renderer made, the three
\* startup messages sent from their goroutines, and p.initInputReader() fails.
RunInitInputReaderFails ==
    /\ Alive
    /\ runPc = "initTerm"
    /\ InitTerminal
    /\ rendererSet' = TRUE
    /\ pend' = [pend EXCEPT !["other"] = @ + StartupSends]
    /\ StartupFails
    /\ UNCHANGED <<inputReader, rOnce, flushLoops, cmdRun>>
    /\ UNCHANGED <<shutVars, hVars, finVars, killVars, sendVars, waitVars, modes, loopVars>>

\* startRenderer (1140-1170): p.once is reset and a flush loop is started.
StartRenderer ==
    /\ rOnce' = "fresh"
    /\ flushLoops' = flushLoops + 1

\* Lines 862-878: the mode table after startup with the options `opts`: the
\* cursor reset, the alt screen set with its option, bracketed paste set unless
\* its option is given.
StartupModes(opts) ==
    [m \in Modes |->
        CASE m = "TextCursorEnable"    -> "Reset"
          [] m = "AltScreenSaveCursor" ->
                IF "withAltScreen" \in opts THEN "Set" ELSE modes[m]
          [] m = "BracketedPaste"      ->
                IF "withoutBracketedPaste" \in opts THEN modes[m] ELSE "Set"
          [] OTHER                     -> modes[m]]

\* Lines 864-874: the renderer's mode methods the startup calls.
StartupRenders(opts) ==
    <<"hideCursor">>
    \o (IF "withAltScreen" \in opts THEN <<"enterAltScreen">> ELSE <<>>)

\* Lines 862-908: the cursor is hidden, the startup options write their modes
\* to the terminal, the renderer is started.
RunStartup ==
    /\ runPc = "startup"
    /\ termDirty' = TRUE
    /\ modes' = StartupModes(startupOptions)
    /\ rendLog' = StartupRenders(startupOptions)
    /\ StartRenderer
    /\ runPc' = "init"
    /\ UNCHANGED <<model, loopErr, loopExit, retModel, retErr, pendingCmd, batchLeft, nCmds, runKilled>>
    /\ UNCHANGED <<inputReader, rendererSet>>
    /\ UNCHANGED <<ctxDone, shutVars, hVars, finVars, killVars, goVars, sendVars, waitVars>>
    /\ UNCHANGED <<lastMsg, lastDid, tick, startupOptions, modeLog, kbVars, jobVars, extVars>>

\* The commands Init or Update may return now.
UpdateCmds == {"nil"} \cup {c \in CmdKinds : nCmds + CmdCost(c) <= MaxCmds}

\* Lines 911-936: Init's command, if any, gets a registered forwarder; the first
\* view is rendered; the resize watcher, whose channel handleResize closes at
\* once when the output is no terminal (lines 425-430), and the command executor
\* are registered; eventLoop is entered.
RunInit ==
    /\ runPc = "init"
    /\ ~HandlersLocked
    /\ \E c \in UpdateCmds :
        /\ nCmds' = nCmds + CmdCost(c)
        /\ fwdCmd' = c
        /\ handlers' = handlers \cup {"resize", "commands"}
                       \cup (IF c = "nil" THEN {} ELSE {"initCmd"})
        /\ hpc' = [hpc EXCEPT !["resize"] = "closed",
                              !["commands"] = "run",
                              !["initCmd"] = IF c = "nil" THEN @ ELSE "wait"]
    /\ runPc' = "loop"
    /\ UNCHANGED <<model, loopErr, loopExit, retModel, retErr, pendingCmd, batchLeft, runKilled>>
    /\ UNCHANGED <<ctxDone, shutVars, termVars, finVars, killVars, goVars, sendVars, waitVars, modes, loopVars>>

\* ------------------------------------------------------ eventLoop (476-739)

\* A loop that ends on Interrupt as it does on Quit.
ExitErrNil(k) == "nil"

\* The error eventLoop returns for a message that ends it (lines 496-500).
ExitErr(k) == IF k = "interrupt" THEN "ErrInterrupted" ELSE "nil"

\* What eventLoop does with a message of kind k, up to its next channel
\* operation.  A panic of Update unwinds Run, whose deferred recoverFromPanic
\* (lines 811, 1027-1029) calls p.shutdown(true).
LoopHandle(k) ==
    \/ /\ k \in {"quit", "interrupt"}
       /\ loopErr' = ExitErr(k)
       /\ loopExit' = k
       /\ runPc' = "afterLoop"
       /\ UNCHANGED <<model, retModel, retErr, pendingCmd, batchLeft, nCmds, runKilled>>
       /\ UNCHANGED shutVars
    \/ /\ k = "batch"
       /\ batchLeft' = BatchCmds
       /\ runPc' = "batch"
       /\ UNCHANGED <<model, loopErr, loopExit, retModel, retErr, pendingCmd, nCmds, runKilled>>
       /\ UNCHANGED shutVars
    \/ /\ k = "other"
       /\ \E c \in UpdateCmds :
            /\ pendingCmd' = c
            /\ nCmds' = nCmds + CmdCost(c)
       /\ model' = model + 1
       /\ runPc' = "sendCmd"
       /\ UNCHANGED <<loopErr, loopExit, retModel, retErr, batchLeft, runKilled>>
       /\ UNCHANGED shutVars
    \/ /\ k = "other"
       /\ runPc' = "recover"
       /\ ShutdownCall("run", TRUE)
       /\ UNCHANGED <<model, loopErr, loopExit, retModel, retErr, pendingCmd, batchLeft, nCmds, runKilled>>

\* Line 479: the select takes the ctx.Done case.
LoopCtxDone ==
    /\ Alive
    /\ runPc = "loop"
    /\ ctxDone
    /\ loopErr' = "nil"
    /\ loopExit' = "ctx"
    /\ runPc' = "afterLoop"
    /\ UNCHANGED <<model, retModel, retErr, pendingCmd, batchLeft, nCmds, runKilled>>
    /\ UNCHANGED <<ctxDone, shutVars, hVars, termVars, finVars, killVars, goVars, sendVars, waitVars, modes, loopVars>>

\* Line 485: the select receives from a goroutine parked in Send.
LoopRecvPend ==
    /\ runPc = "loop"
    /\ \E k \in MsgKinds :
        /\ pend[k] > 0
        /\ pend' = [pend EXCEPT ![k] = @ - 1]
        /\ LoopHandle(k)
    /\ UNCHANGED <<cmdRun>>
    /\ UNCHANGED <<ctxDone, hVars, termVars, finVars, killVars, sendVars, waitVars, modes, loopVars>>

\* Line 485: the select receives from an outside caller of Send.
LoopRecvSend ==
    /\ runPc = "loop"
    /\ \E s \in Senders :
        /\ sendPc[s] = "select"
        /\ sendPc' = [sendPc EXCEPT ![s] = "delivered"]
        /\ LoopHandle(sendKind[s])
    /\ UNCHANGED <<sendKind, sendWhen>>
    /\ UNCHANGED <<ctxDone, hVars, termVars, finVars, killVars, goVars, waitVars, modes, loopVars>>

\* Line 485: the select receives from the signal handler (lines 408, 410), which
\* then returns and closes its channel.
LoopRecvSignal ==
    /\ runPc = "loop"
    /\ hpc["signals"] \in {"sendInterrupt", "sendQuit"}
    /\ hpc' = [hpc EXCEPT !["signals"] = "closed"]
    /\ LoopHandle(IF hpc["signals"] = "sendInterrupt" THEN "interrupt" ELSE "quit")
    /\ UNCHANGED <<handlers, fwdCmd>>
    /\ UNCHANGED <<ctxDone, termVars, finVars, killVars, goVars, sendVars, waitVars, modes, loopVars>>

\* An executor that joins every command it started before it receives again.
ExecutorJoins ==
    /\ hpc["commands"] = "run"
    /\ \A i \in DOMAIN cst : cst[i] # "running"

\* handleCommands is at its select (lines 443-448): it started each command in
\* a goroutine of its own (458-466) and waits for none of them.
ExecutorReady == hpc["commands"] = "run"

\* handleCommands' receive of command c (lines 448-466): nil is skipped, any
\* other command gets a goroutine of its own.
Spawn(c) ==
    cmdRun' = IF c = "nil" THEN cmdRun ELSE [cmdRun EXCEPT ![c] = @ + 1]

\* A loop that does not render after Update (line 736 left out).
NotRendered == UNCHANGED renders /\ UNCHANGED finalRendered

\* Line 736: p.render(model).
Rendered == renders' = renders + 1 /\ UNCHANGED finalRendered

\* Lines 734-736: `cmds <- cmd` is received by handleCommands; the view is rendered.
LoopSendCmd ==
    /\ Alive
    /\ runPc = "sendCmd"
    /\ ExecutorReady
    /\ Spawn(pendingCmd)
    /\ pendingCmd' = "nil"
    /\ Rendered
    /\ runPc' = "loop"
    /\ UNCHANGED <<model, loopErr, loopExit, retModel, retErr, batchLeft, nCmds, runKilled>>
    /\ UNCHANGED <<pend>>
    /\ UNCHANGED <<lastMsg, lastDid, tick, startupOptions, modeLog, rendLog, kbVars, jobVars, nestVars, relVars>>
    /\ UNCHANGED <<ctxDone, shutVars, hVars, termVars, finVars, killVars, sendVars, waitVars, modes>>

\* Lines 667-670: the next command of the batch is received by handleCommands;
\* after the last one the loop continues without Update or render.
LoopBatchSend ==
    /\ runPc = "batch"
    /\ ExecutorReady
    /\ Spawn(Head(batchLeft))
    /\ batchLeft' = Tail(batchLeft)
    /\ runPc' = IF Tail(batchLeft) = <<>> THEN "loop" ELSE "batch"
    /\ UNCHANGED <<model, loopErr, loopExit, retModel, retErr, pendingCmd, nCmds, runKilled>>
    /\ UNCHANGED <<pend>>
    /\ UNCHANGED <<ctxDone, shutVars, hVars, termVars, finVars, killVars, sendVars, waitVars, modes, loopVars>>

\* A Run that takes only a cancelled context for a kill.
KilledByContextOnly == ctxDone

\* Line 937: killed := p.ctx.Err() != nil || err != nil.
Killed == ctxDone \/ loopErr # "nil"

\* Lines 938-940: the error Run goes on with.
RunErr == IF Killed /\ loopErr = "nil" THEN "ErrProgramKilled" ELSE loopErr

\* A Run that renders the final model whatever the error.
FinalRenderAlways == TRUE

\* Lines 941-944: the final model is rendered when err is nil.
FinalRender == RunErr = "nil"

\* Lines 937-947: killed and err are computed; with a nil err the final model
\* is rendered; p.shutdown(killed) is called.  A panic of the final View is
\* recovered by the deferred recoverFromPanic, which calls p.shutdown(true).
RunAfterLoop ==
    /\ runPc = "afterLoop"
    /\ runKilled' = Killed
    /\ loopErr' = RunErr
    /\ \/ /\ runPc' = "shutdown"
          /\ finalRendered' = FinalRender
          /\ ShutdownCall("run", Killed)
       \/ /\ RunErr = "nil"
          /\ runPc' = "recover"
          /\ UNCHANGED finalRendered
          /\ ShutdownCall("run", TRUE)
    /\ UNCHANGED <<model, loopExit, retModel, retErr, pendingCmd, batchLeft, nCmds>>
    /\ UNCHANGED <<lastMsg, lastDid, tick, startupOptions, modeLog, rendLog, kbVars, jobVars, nestVars, relVars, renders>>
    /\ UNCHANGED <<ctxDone, hVars, termVars, finVars, killVars, goVars, sendVars, waitVars, modes>>

\* A Run that returns the model it was constructed with.
InitialModelReturned == <<0>>

\* Lines 936, 949: the Model Run returns is the one eventLoop returned.
ReturnedModel == <<model>>

\* Lines 949, 764: shutdown has returned; Run returns the model and err, and its
\* deferred p.cancel() runs.
RunReturn ==
    /\ runPc = "shutdown"
    /\ ShutdownReturned
    /\ retModel' = ReturnedModel
    /\ retErr' = loopErr
    /\ ctxDone' = TRUE
    /\ runPc' = "returned"
    /\ UNCHANGED <<model, loopErr, loopExit, pendingCmd, batchLeft, nCmds, runKilled>>
    /\ UNCHANGED <<shutVars, hVars, termVars, finVars, killVars, goVars, sendVars, waitVars, modes, loopVars>>

\* Lines 1030-1031, 764: after the recovered panic Run returns the zero values
\* of its results, a nil Model and a nil error.
RunRecoverReturn ==
    /\ runPc = "recover"
    /\ ShutdownReturned
    /\ retModel' = <<>>
    /\ retErr' = "nil"
    /\ ctxDone' = TRUE
    /\ runPc' = "returned"
    /\ UNCHANGED <<model, loopErr, loopExit, pendingCmd, batchLeft, nCmds, runKilled>>
    /\ UNCHANGED <<shutVars, hVars, termVars, finVars, killVars, goVars, sendVars, waitVars, modes, loopVars>>

\* ------------------------------------------------- the handler goroutines

\* A handler that never looks at p.ignoreSignals.
SignalsNeverIgnored == FALSE

\* Line 405: p.ignoreSignals is not zero.
SignalsIgnored == ignoreSignals

\* Lines 406-411: the message the handler sends for a signal.
SignalMsg(sig) == IF sig = "SIGINT" THEN "sendInterrupt" ELSE "sendQuit"

\* handleSignals, lines 404-414: a signal arrives while the handler listens;
\* with p.ignoreSignals zero it goes on to send the message on p.msgs, and
\* otherwise it sends nothing and is back at its select.
SignalArrives ==
    /\ hpc["signals"] = "listen"
    /\ SignalsIgnored => Len(sigLog) < MaxSignals
    /\ \E sig \in {"SIGINT", "SIGTERM"} :
        /\ sigLog' = Append(sigLog, <<sig, ignoreSignals>>)
        /\ hpc' = [hpc EXCEPT !["signals"] =
                      IF SignalsIgnored THEN "listen" ELSE SignalMsg(sig)]
    /\ UNCHANGED <<handlers, fwdCmd>>
    /\ UNCHANGED <<ignoreSignals, released, colors, restLog, restFrom, nReleases>>
    /\ UNCHANGED <<lastMsg, lastDid, tick, startupOptions, modeLog, rendLog, kbVars, jobVars, nestVars, turnVars>>
    /\ UNCHANGED <<runVars, ctxDone, shutVars, termVars, finVars, killVars, goVars, sendVars, waitVars, modes>>

\* The goroutines whose select has a ctx.Done case and that return on it: the
\* signal handler while it listens (401), the command executor (445), the
\* initial-command forwarder (921).
CtxListening(h) ==
    \/ h = "signals"  /\ hpc[h] = "listen"
    \/ h = "commands" /\ hpc[h] = "run"
    \/ h = "initCmd"  /\ hpc[h] = "wait"

\* Handler goroutine h takes its ctx.Done case, returns and closes its channel.
HandlerCtxDoneOf(h) ==
    /\ Alive
    /\ ctxDone
    /\ CtxListening(h)
    /\ hpc' = [hpc EXCEPT ![h] = "closed"]
    /\ UNCHANGED <<handlers, fwdCmd>>
    /\ UNCHANGED <<runVars, ctxDone, shutVars, termVars, finVars, killVars, goVars, sendVars, waitVars, modes, loopVars>>

HandlerCtxDone == \E h \in HandlerNames : HandlerCtxDoneOf(h)

\* Lines 916-923: the forwarder's `cmds <- initCmd` is received by handleCommands.
ForwardInitCmd ==
    /\ hpc["initCmd"] = "wait"
    /\ hpc["commands"] = "run"
    /\ Spawn(fwdCmd)
    /\ hpc' = [hpc EXCEPT !["initCmd"] = "closed"]
    /\ UNCHANGED <<handlers, fwdCmd, pend>>
    /\ UNCHANGED <<runVars, ctxDone, shutVars, termVars, finVars, killVars, sendVars, waitVars, modes, loopVars>>

\* ------------------------------------------- the command goroutines (458-466)

\* Line 464-465: cmd() returns its message and the goroutine calls p.Send.
CmdReturns ==
    /\ \E c \in CmdKinds \ {"cPanic"} :
        /\ cmdRun[c] > 0
        /\ cmdRun' = [cmdRun EXCEPT ![c] = @ - 1]
        /\ pend' = [pend EXCEPT ![CmdMsg(c)] = @ + 1]
    /\ UNCHANGED <<runVars, ctxDone, shutVars, hVars, termVars, finVars, killVars, sendVars, waitVars, modes, loopVars>>

\* Lines 460-464, 1027-1032: cmd() panics; the deferred recoverFromPanic calls
\* p.shutdown(true), whose Do returns to it once the body has run; the
\* goroutine then prints the panic and ends.
CmdPanics ==
    /\ cmdRun["cPanic"] > 0
    /\ cmdRun' = [cmdRun EXCEPT !["cPanic"] = @ - 1]
    /\ ShutdownCall("cmd", TRUE)
    /\ UNCHANGED <<pend>>
    /\ UNCHANGED <<runVars, ctxDone, hVars, termVars, finVars, killVars, sendVars, waitVars, modes, loopVars>>

\* ------------------------------------------------------- Send (959-964), Quit

\* A Send whose second select case is always ready.
SendAlwaysReady == TRUE

\* The ctx.Done case of Send's select (line 961) is ready.
SendCtxReady == ctxDone

\* A goroutine parked in Send takes the ctx.Done case: its message is dropped.
PendDrop ==
    /\ SendCtxReady
    /\ \E k \in MsgKinds :
        /\ pend[k] > 0
        /\ pend' = [pend EXCEPT ![k] = @ - 1]
    /\ UNCHANGED <<cmdRun>>
    /\ UNCHANGED <<runVars, ctxDone, shutVars, hVars, termVars, finVars, killVars, sendVars, waitVars, modes, loopVars>>

\* An outside goroutine calls p.Send(msg), or p.Quit() for kind "quit", and
\* reaches the select.
SendCall ==
    /\ \E s \in Senders, k \in {"quit", "interrupt", "other"} :
        /\ sendPc[s] = "idle"
        /\ sendPc' = [sendPc EXCEPT ![s] = "select"]
        /\ sendKind' = [sendKind EXCEPT ![s] = k]
        /\ sendWhen' = [sendWhen EXCEPT ![s] = Phase]
    /\ UNCHANGED <<runVars, ctxDone, shutVars, hVars, termVars, finVars, killVars, goVars, waitVars, modes, loopVars>>

\* The caller's select takes the ctx.Done case and Send returns.
SendDrop ==
    /\ SendCtxReady
    /\ \E s \in Senders :
        /\ sendPc[s] = "select"
        /\ sendPc' = [sendPc EXCEPT ![s] = "dropped"]
    /\ UNCHANGED <<sendKind, sendWhen>>
    /\ UNCHANGED <<runVars, ctxDone, shutVars, hVars, termVars, finVars, killVars, goVars, waitVars, modes, loopVars>>

\* ------------------------------------------------------------ Wait (985-987)

\* A goroutine calls Wait and reads p.finished: nil before Run has made it.
WaitCall ==
    /\ waitPc = "idle"
    /\ waitPc' = "blocked"
    /\ waitChan' = IF finishedMade THEN "chan" ELSE "nil"
    /\ UNCHANGED <<runVars, ctxDone, shutVars, hVars, termVars, finVars, killVars, goVars, sendVars>>
    /\ UNCHANGED <<modes, loopVars>>

\* `<-p.finished` receives the buffered value and Wait returns.
WaitReturn ==
    /\ waitPc = "blocked"
    /\ waitChan = "chan"
    /\ finishedBuf > 0
    /\ finishedBuf' = finishedBuf - 1
    /\ waitPc' = "returned"
    /\ UNCHANGED <<waitChan, finishedMade, nFinished>>
    /\ UNCHANGED <<runVars, ctxDone, shutVars, hVars, termVars, killVars, goVars, sendVars>>
    /\ UNCHANGED <<modes, loopVars>>

\* ------------------------------------- eventLoop: mode messages (516-559)

\* Messages of this kind the model lets the loop handle.
MaxLoopMsgs == 3

\* What the loop does for every message it does not end on or `continue` past
\* (lines 732-736): Update, the hand-off of its command, the render.
AfterSwitch == << <<"Update">>, <<"cmds">>, <<"renderer", "render">> >>

\* enableModeMsg, lines 524-529: the table after the message.
EnableMode(m) ==
    IF IsSet(modes[m]) THEN modes ELSE [modes EXCEPT ![m] = "Set"]

\* enableModeMsg without the IsSet check of lines 525-527.
EnableDoesUnchecked(m) ==
    CASE m = "AltScreenSaveCursor" -> << <<"renderer", "enterAltScreen">> >>
      [] m = "TextCursorEnable"    -> << <<"renderer", "showCursor">> >>
      [] m = "GraphemeClustering"  -> << <<"write", "set+request", m>> >>
      [] OTHER                     -> << <<"write", "set", m>> >>

\* enableModeMsg, lines 524-542: the renderer calls and writes of the message.
EnableDoes(m) ==
    IF IsSet(modes[m]) THEN <<>>
    ELSE CASE m = "AltScreenSaveCursor" -> << <<"renderer", "enterAltScreen">> >>
           [] m = "TextCursorEnable"    -> << <<"renderer", "showCursor">> >>
           [] m = "GraphemeClustering"  -> << <<"write", "set+request", m>> >>
           [] OTHER                     -> << <<"write", "set", m>> >>

\* disableModeMsg that does not record the reset (line 550 left out).
DisableModeNotRecorded(m) == modes

\* disableModeMsg, lines 545-550: the table after the message.
DisableMode(m) ==
    IF IsReset(modes[m]) THEN modes ELSE [modes EXCEPT ![m] = "Reset"]

\* disableModeMsg without the IsReset check of lines 546-548.
DisableDoesUnchecked(m) ==
    CASE m = "AltScreenSaveCursor" -> << <<"renderer", "exitAltScreen">> >>
      [] m = "TextCursorEnable"    -> << <<"renderer", "hideCursor">> >>
      [] OTHER                     -> << <<"write", "reset", m>> >>

\* disableModeMsg, lines 545-559: the renderer calls and writes of the message.
DisableDoes(m) ==
    IF IsReset(modes[m]) THEN <<>>
    ELSE CASE m = "AltScreenSaveCursor" -> << <<"renderer", "exitAltScreen">> >>
           [] m = "TextCursorEnable"    -> << <<"renderer", "hideCursor">> >>
           [] OTHER                     -> << <<"write", "reset", m>> >>

\* The names of the renderer methods among the things done for a message.
RenderCalls(does) ==
    [i \in DOMAIN SelectSeq(does, LAMBDA d : d[1] = "renderer") |->
        SelectSeq(does, LAMBDA d : d[1] = "renderer")[i][2]]

\* The loop receives a message of one of these kinds, handles it, calls Update,
\* hands Update's command (nil here) to the running executor and renders.
LoopControl(msg, table, does) ==
    /\ runPc = "loop"
    /\ hpc["commands"] = "run"
    /\ model < MaxLoopMsgs
    /\ modes' = table
    /\ lastMsg' = msg
    /\ lastDid' = does \o AfterSwitch
    /\ tick' = ~tick
    /\ modeLog' = Append(modeLog, msg)
    /\ rendLog' = rendLog \o RenderCalls(does)
    /\ model' = model + 1
    /\ UNCHANGED <<runPc, loopErr, loopExit, retModel, retErr, pendingCmd, batchLeft, nCmds, runKilled>>
    /\ UNCHANGED <<ctxDone, shutVars, hVars, termVars, finVars, killVars, goVars, sendVars, waitVars>>
    /\ Rendered
    /\ UNCHANGED <<startupOptions, kbVars, jobVars, nestVars, relVars>>

\* Lines 523-542.
LoopEnableMode ==
    \E m \in Modes : LoopControl(<<"enableMode", m>>, EnableMode(m), EnableDoes(m))

\* Lines 544-559.
LoopDisableMode ==
    \E m \in Modes : LoopControl(<<"disableMode", m>>, DisableMode(m), DisableDoes(m))

\* Lines 516-521: the terminal's report of grapheme clustering is stored as it is.
LoopModeReport ==
    \E v \in Settings :
        LoopControl(<<"modeReport", "GraphemeClustering", v>>,
                    [modes EXCEPT !["GraphemeClustering"] = v], <<>>)

\* ------------------------- eventLoop: keyboard enhancements (606-654)

\* Enable and disable messages the model lets the loop handle.
MaxKbMsgs == 2

\* Reports the model lets the terminal make.
MaxReplies == 1

\* The bits of the Kitty keyboard protocol (keyboard.go:16-23).
KittyDisambiguateEscapeCodes == 1
KittyReportEventTypes == 2
KittyReportAlternateKeys == 4
KittyReportAllKeysAsEscapeCodes == 8

\* The bits of p.requestedEnhancements.kittyFlags the options can set.
KittyBits == 0 .. 4

\* Bit i of n.
BitOf(n, i) == (n \div 2^i) % 2

\* Bit i of a | b, at its place.
OrBit(a, b, i) == IF BitOf(a, i) = 1 \/ BitOf(b, i) = 1 THEN 2^i ELSE 0

\* a | b on kittyFlags.
Or(a, b) ==
    OrBit(a, b, 0) + OrBit(a, b, 1) + OrBit(a, b, 2) + OrBit(a, b, 3) + OrBit(a, b, 4)

\* The options of keyboard.go:49-73, applied to k.
ApplyOption(e, k) ==
    CASE e = "WithKeyReleases" ->
           [k EXCEPT !.kittyFlags = Or(@, KittyReportEventTypes)]
      [] e = "WithUniformKeyLayout" ->
           [k EXCEPT !.kittyFlags =
               Or(@, Or(KittyReportAlternateKeys, KittyReportAllKeysAsEscapeCodes))]
      [] e = "withKeyDisambiguation" ->
           [k EXCEPT !.kittyFlags = Or(@, KittyDisambiguateEscapeCodes),
                     !.modifyOtherKeys = IF @ < 1 THEN 1 ELSE @]

\* Lines 622-625: the options of the message applied in order to a zero value.
KeOf(msg) ==
    LET ke[i \in 0 .. Len(msg)] ==
            IF i = 0 THEN NoEnhancements ELSE ApplyOption(msg[i], ke[i - 1])
    IN  ke[Len(msg)]

\* The enable messages of the model: what RequestKeyboardEnhancements makes
\* (keyboard.go:92-96) and the single options.
KbRequests ==
    { <<"withKeyDisambiguation">>,
      <<"WithKeyReleases">>,
      <<"WithKeyReleases", "withKeyDisambiguation">>,
      <<"WithUniformKeyLayout", "withKeyDisambiguation">> }

\* What a terminal may report as supported.
KbReports ==
    { [kittyFlags |-> 3, modifyOtherKeys |-> 1],
      [kittyFlags |-> 1, modifyOtherKeys |-> 0] }

\* A merge in which the last request replaces the ones before it.
MergeLastWins(ke) == ke

\* Lines 627-630: the requested enhancements after a message asking for ke.
Merge(ke) ==
    [kittyFlags |-> Or(requested.kittyFlags, ke.kittyFlags),
     modifyOtherKeys |-> IF ke.modifyOtherKeys > requested.modifyOtherKeys
                         THEN ke.modifyOtherKeys ELSE requested.modifyOtherKeys]

\* requestKeyboardEnhancements, lines 1211-1220: what is written for r.
RequestWrites(r) ==
    (IF r.modifyOtherKeys > 0
     THEN << <<"write", "KeyModifierOptions", r.modifyOtherKeys>>,
             <<"write", "QueryModifyOtherKeys">> >>
     ELSE <<>>)
    \o (IF r.kittyFlags > 0
        THEN << <<"write", "PushKittyKeyboard", r.kittyFlags>>,
                <<"write", "RequestKittyKeyboard">> >>
        ELSE <<>>)

\* The rest of the loop's turn for a keyboard message: Update, the hand-off of
\* its command (nil here) to the running executor, the render.
LoopKbdTurn(msg, does) ==
    /\ runPc = "loop"
    /\ hpc["commands"] = "run"
    /\ lastMsg' = msg
    /\ lastDid' = does \o AfterSwitch
    /\ tick' = ~tick
    /\ model' = model + 1
    /\ UNCHANGED <<runPc, loopErr, loopExit, retModel, retErr, pendingCmd, batchLeft, nCmds, runKilled>>
    /\ UNCHANGED <<ctxDone, shutVars, hVars, termVars, finVars, killVars, goVars, sendVars, waitVars>>
    /\ Rendered
    /\ UNCHANGED <<modes, startupOptions, modeLog, rendLog, goos, jobVars, nestVars, relVars>>

\* Lines 615-636: enableKeyboardEnhancementsMsg.  On Windows nothing is done;
\* elsewhere the request is merged, the sequences are written and a goroutine
\* is started in sendKeyboardEnhancementsMsg.
LoopEnableKbd ==
    \E msg \in KbRequests :
        /\ nKbMsgs < MaxKbMsgs
        /\ nKbMsgs' = nKbMsgs + 1
        /\ IF goos = "windows"
           THEN /\ LoopKbdTurn(<<"enableKbd", KeOf(msg)>>, <<>>)
                /\ UNCHANGED <<requested, kbWait, kbConfirmed>>
           ELSE /\ requested' = Merge(KeOf(msg))
                /\ LoopKbdTurn(<<"enableKbd", KeOf(msg)>>, RequestWrites(Merge(KeOf(msg))))
                /\ kbWait' = kbWait + 1
                /\ kbConfirmed' = <<>>
        /\ kbReqs' = Append(kbReqs, KeOf(msg))
        /\ UNCHANGED <<active, kbSend, kbSignal, kbReply, nReplies, kbDisabled>>

\* Lines 645-654: what disableKeyboardEnhancementsMsg writes.
DisableWrites ==
    (IF active.modifyOtherKeys > 0
     THEN << <<"write", "ResetModifyOtherKeys">> >> ELSE <<>>)
    \o (IF active.kittyFlags > 0
        THEN << <<"write", "DisableKittyKeyboard">> >> ELSE <<>>)

\* Lines 645-654: the requested enhancements after disableKeyboardEnhancementsMsg.
DisableRequested ==
    [kittyFlags |-> IF active.kittyFlags > 0 THEN 0 ELSE requested.kittyFlags,
     modifyOtherKeys |-> IF active.modifyOtherKeys > 0
                         THEN 0 ELSE requested.modifyOtherKeys]

\* Lines 638-654: disableKeyboardEnhancementsMsg.
LoopDisableKbd ==
    /\ nKbMsgs < MaxKbMsgs
    /\ nKbMsgs' = nKbMsgs + 1
    /\ kbDisabled' = TRUE
    /\ kbConfirmed' = <<>>
    /\ IF goos = "windows"
       THEN /\ LoopKbdTurn(<<"disableKbd">>, <<>>)
            /\ UNCHANGED <<requested, active>>
       ELSE /\ LoopKbdTurn(<<"disableKbd">>, DisableWrites)
            /\ requested' = DisableRequested
            /\ active' = NoEnhancements
    /\ UNCHANGED <<kbWait, kbSend, kbSignal, kbReply, nReplies, kbReqs>>

\* Lines 606-613: KeyboardEnhancementsMsg.  The report becomes the active
\* enhancements and a goroutine is started that sends on p.keyboardc.
LoopKbdMsg(v) ==
    /\ LoopKbdTurn(<<"kbdReport", v>>, <<>>)
    /\ active' = v
    /\ kbSignal' = kbSignal + 1
    /\ UNCHANGED <<requested, kbWait, nReplies, nKbMsgs, kbReqs, kbDisabled>>

\* A timeout that reports what was requested as supported.
TimeoutReportsRequested == requested

\* Line 1204: the report sent when the timer fires.
TimeoutReport == NoEnhancements

\* Lines 1203-1204: the timer of a goroutine in sendKeyboardEnhancementsMsg
\* fires and its select takes that case.  The goroutine sending on p.keyboardc
\* may not have reached its send by then, and a select with both cases ready
\* takes either.
KbdTimerFires ==
    /\ kbWait > 0
    /\ kbWait' = kbWait - 1
    /\ kbSend' = kbSend + 1
    /\ UNCHANGED <<requested, active, kbSignal, kbReply, nReplies, nKbMsgs, kbReqs, kbDisabled, kbConfirmed>>
    /\ UNCHANGED <<lastMsg, lastDid, tick, startupOptions, modeLog, rendLog, goos, jobVars, extVars>>
    /\ UNCHANGED <<runVars, ctxDone, shutVars, hVars, termVars, finVars, killVars, goVars, sendVars, waitVars, modes>>

\* Lines 612, 1205: a send on p.keyboardc meets the select of a goroutine in
\* sendKeyboardEnhancementsMsg; both goroutines end.
KbdUnblocked ==
    /\ kbWait > 0
    /\ kbSignal > 0
    /\ kbWait' = kbWait - 1
    /\ kbSignal' = kbSignal - 1
    /\ UNCHANGED <<requested, active, kbSend, kbReply, nReplies, nKbMsgs, kbReqs, kbDisabled, kbConfirmed>>
    /\ UNCHANGED <<lastMsg, lastDid, tick, startupOptions, modeLog, rendLog, goos, jobVars, extVars>>
    /\ UNCHANGED <<runVars, ctxDone, shutVars, hVars, termVars, finVars, killVars, goVars, sendVars, waitVars, modes>>

\* The loop receives the report of a timer that fired (lines 1204, 959-964).
LoopKbdTimeout ==
    /\ kbSend > 0
    /\ kbSend' = kbSend - 1
    /\ LoopKbdMsg(TimeoutReport)
    /\ UNCHANGED <<kbReply, kbConfirmed>>

\* The terminal answers a query that was written: its report is read and sent
\* to the loop.
TerminalReplies ==
    /\ goos # "windows"
    /\ kbReqs # <<>>
    /\ nReplies < MaxReplies
    /\ nReplies' = nReplies + 1
    /\ \E v \in KbReports : kbReply' = Append(kbReply, v)
    /\ UNCHANGED <<requested, active, kbWait, kbSend, kbSignal, nKbMsgs, kbReqs, kbDisabled, kbConfirmed>>
    /\ UNCHANGED <<lastMsg, lastDid, tick, startupOptions, modeLog, rendLog, goos, jobVars, extVars>>
    /\ UNCHANGED <<runVars, ctxDone, shutVars, hVars, termVars, finVars, killVars, goVars, sendVars, waitVars, modes>>

\* The loop receives the terminal's report.
LoopKbdReply ==
    /\ kbReply # <<>>
    /\ kbReply' = Tail(kbReply)
    /\ LoopKbdMsg(Head(kbReply))
    /\ kbConfirmed' = IF kbWait = 1 /\ kbSend = 0 /\ Len(kbReqs) = 1 /\ ~kbDisabled
                      THEN <<Head(kbReply)>> ELSE <<>>
    /\ UNCHANGED <<kbSend>>

\* ----------------------- eventLoop: BatchMsg and sequenceMsg (666-702)

\* The commands of a composite message by what they do when invoked.
JobKinds == {"nil", "cOther", "cPanic"}

JobLists == UNION {[1..n -> JobKinds] : n \in 1..MaxJobCmds}

\* The check for nil left out.
NilNotSkipped(c) == FALSE

\* Lines 448 and 676: `if cmd == nil { continue }`.
IsNilCmd(c) == c = "nil"

\* A command the sequence goroutine is done with: skipped as nil, or its
\* p.Send has returned (received by the loop, or ctx.Done).
Settled == {"skipped", "delivered", "dropped", "done"}

\* Lines 459-462: the goroutine handleCommands starts for a command defers
\* recoverFromPanic unless the program was made with withoutCatchPanics; the
\* goroutine of lines 673-701 defers nothing.
Recovered(form) == form = "batch" /\ "withoutCatchPanics" \notin startupOptions

\* The command is received (handleCommands 447) or reached (sequence 674):
\* nil is skipped, any other command is invoked.
Invoke(i) ==
    IF IsNilCmd(jobCmds[i])
    THEN /\ cst' = [cst EXCEPT ![i] = "skipped"]
         /\ UNCHANGED invoked
    ELSE /\ cst' = [cst EXCEPT ![i] = "running"]
         /\ invoked' = [invoked EXCEPT ![i] = @ + 1]

\* Line 485 and 666: the select receives the BatchMsg from the goroutine parked
\* in Send and enters the range over its commands.
LoopRecvBatch ==
    /\ Alive
    /\ runPc = "loop"
    /\ jobPc = "sent"
    /\ jobForm = "batch"
    /\ jobPc' = "fanout"
    /\ jobIdx' = 1
    /\ runPc' = "batch"
    /\ UNCHANGED <<jobForm, jobCmds, cst, invoked, updLog, diag, crashed>>
    /\ UNCHANGED <<model, loopErr, loopExit, retModel, retErr, pendingCmd, batchLeft, nCmds, runKilled>>
    /\ UNCHANGED <<lastMsg, lastDid, tick, startupOptions, modeLog, rendLog, kbVars, extVars>>
    /\ UNCHANGED <<ctxDone, shutVars, hVars, termVars, finVars, killVars, goVars, sendVars, waitVars, modes>>

\* Lines 667-670 with 447-466: `cmds <- cmd` is received by handleCommands,
\* which skips nil and starts a goroutine invoking any other command; after the
\* last command the loop continues without Update or render.
LoopBatchHand ==
    /\ Alive
    /\ runPc = "batch"
    /\ jobPc = "fanout"
    /\ ExecutorReady
    /\ Invoke(jobIdx)
    /\ IF jobIdx = Len(jobCmds)
       THEN /\ jobPc' = "taken"
            /\ runPc' = "loop"
            /\ UNCHANGED jobIdx
       ELSE /\ jobIdx' = jobIdx + 1
            /\ UNCHANGED <<jobPc, runPc>>
    /\ UNCHANGED <<jobForm, jobCmds, updLog, diag, crashed>>
    /\ UNCHANGED <<model, loopErr, loopExit, retModel, retErr, pendingCmd, batchLeft, nCmds, runKilled>>
    /\ UNCHANGED <<lastMsg, lastDid, tick, startupOptions, modeLog, rendLog, kbVars, extVars>>
    /\ UNCHANGED <<ctxDone, shutVars, hVars, termVars, finVars, killVars, goVars, sendVars, waitVars, modes>>

\* Lines 672-673 and 732-734: the select receives the sequenceMsg, starts the
\* goroutine that runs its commands, and gives the message itself to Update,
\* which returns no command.
LoopRecvSequence ==
    /\ Alive
    /\ runPc = "loop"
    /\ jobPc = "sent"
    /\ jobForm = "sequence"
    /\ jobPc' = "taken"
    /\ model' = model + 1
    /\ pendingCmd' = "nil"
    /\ runPc' = "sendCmd"
    /\ UNCHANGED <<jobForm, jobCmds, jobIdx, cst, invoked, updLog, diag, crashed>>
    /\ UNCHANGED <<loopErr, loopExit, retModel, retErr, batchLeft, nCmds, runKilled>>
    /\ UNCHANGED <<lastMsg, lastDid, tick, startupOptions, modeLog, rendLog, kbVars, extVars>>
    /\ UNCHANGED <<ctxDone, shutVars, hVars, termVars, finVars, killVars, goVars, sendVars, waitVars, modes>>

\* The commands started side by side, as those of a batch are.
SeqNotAwaited(i) == TRUE

\* Lines 674-699: the range of the sequence goroutine reaches command i when
\* the iteration of every earlier command has ended.
SeqReady(i) == \A j \in 1..(i - 1) : cst[j] \in Settled

\* Lines 674-679: the sequence goroutine skips a nil command and invokes any
\* other.
SeqInvokeOf(i) ==
    /\ Alive
    /\ jobForm = "sequence"
    /\ jobPc = "taken"
    /\ cst[i] = "none"
    /\ SeqReady(i)
    /\ Invoke(i)
    /\ UNCHANGED <<jobForm, jobCmds, jobPc, jobIdx, updLog, diag, crashed>>
    /\ UNCHANGED <<lastMsg, lastDid, tick, startupOptions, modeLog, rendLog, kbVars, extVars>>
    /\ UNCHANGED <<runVars, ctxDone, shutVars, hVars, termVars, finVars, killVars, goVars, sendVars, waitVars, modes>>

SeqInvoke == \E i \in DOMAIN jobCmds : SeqInvokeOf(i)

\* Lines 464-465 and 679-697: cmd() returns its message and the goroutine
\* calls p.Send.
JobCmdReturnsOf(i) ==
    /\ Alive
    /\ cst[i] = "running"
    /\ jobCmds[i] = "cOther"
    /\ cst' = [cst EXCEPT ![i] = "sending"]
    /\ UNCHANGED <<jobForm, jobCmds, jobPc, jobIdx, invoked, updLog, diag, crashed>>
    /\ UNCHANGED <<lastMsg, lastDid, tick, startupOptions, modeLog, rendLog, kbVars, extVars>>
    /\ UNCHANGED <<runVars, ctxDone, shutVars, hVars, termVars, finVars, killVars, goVars, sendVars, waitVars, modes>>

JobCmdReturns == \E i \in DOMAIN jobCmds : JobCmdReturnsOf(i)

\* cmd() panics. In a goroutine of handleCommands the deferred recoverFromPanic
\* calls p.shutdown(true) (line 1029); in the sequence goroutine nothing
\* recovers and the runtime ends the process where it stands.
JobCmdPanicsOf(i) ==
    /\ Alive
    /\ cst[i] = "running"
    /\ jobCmds[i] = "cPanic"
    /\ IF Recovered(jobForm)
       THEN /\ cst' = [cst EXCEPT ![i] = "recovering"]
            /\ ShutdownCall("cmd", TRUE)
            /\ UNCHANGED crashed
       ELSE /\ cst' = [cst EXCEPT ![i] = "panicked"]
            /\ crashed' = TRUE
            /\ UNCHANGED shutVars
    /\ UNCHANGED <<jobForm, jobCmds, jobPc, jobIdx, invoked, updLog, diag>>
    /\ UNCHANGED <<lastMsg, lastDid, tick, startupOptions, modeLog, rendLog, kbVars, extVars>>
    /\ UNCHANGED <<runVars, ctxDone, hVars, termVars, finVars, killVars, goVars, sendVars, waitVars, modes>>

JobCmdPanics == \E i \in DOMAIN jobCmds : JobCmdPanicsOf(i)

\* Lines 1030-1031: p.shutdown(true) has returned and recoverFromPanic prints
\* the panic and the stack.
JobDiagnosticOf(i) ==
    /\ Alive
    /\ cst[i] = "recovering"
    /\ ShutdownReturned
    /\ cst' = [cst EXCEPT ![i] = "printed"]
    /\ diag' = Append(diag, termDirty)
    /\ UNCHANGED <<jobForm, jobCmds, jobPc, jobIdx, invoked, updLog, crashed>>
    /\ UNCHANGED <<lastMsg, lastDid, tick, startupOptions, modeLog, rendLog, kbVars, extVars>>
    /\ UNCHANGED <<runVars, ctxDone, shutVars, hVars, termVars, finVars, killVars, goVars, sendVars, waitVars, modes>>

JobDiagnostic == \E i \in DOMAIN jobCmds : JobDiagnosticOf(i)

\* Lines 485 and 732-734: the select receives the message of command i from
\* the goroutine parked in Send and gives it to Update, which returns no
\* command.
LoopRecvJobMsgOf(i) ==
    /\ Alive
    /\ runPc = "loop"
    /\ cst[i] = "sending"
    /\ cst' = [cst EXCEPT ![i] = "delivered"]
    /\ updLog' = Append(updLog, i)
    /\ model' = model + 1
    /\ pendingCmd' = "nil"
    /\ runPc' = "sendCmd"
    /\ UNCHANGED <<jobForm, jobCmds, jobPc, jobIdx, invoked, diag, crashed>>
    /\ UNCHANGED <<loopErr, loopExit, retModel, retErr, batchLeft, nCmds, runKilled>>
    /\ UNCHANGED <<lastMsg, lastDid, tick, startupOptions, modeLog, rendLog, kbVars, extVars>>
    /\ UNCHANGED <<ctxDone, shutVars, hVars, termVars, finVars, killVars, goVars, sendVars, waitVars, modes>>

LoopRecvJobMsg == \E i \in DOMAIN jobCmds : LoopRecvJobMsgOf(i)

\* Lines 960-963: the Send of command i's message takes its ctx.Done case.
JobSendDropOf(i) ==
    /\ Alive
    /\ ctxDone
    /\ cst[i] = "sending"
    /\ cst' = [cst EXCEPT ![i] = "dropped"]
    /\ UNCHANGED <<jobForm, jobCmds, jobPc, jobIdx, invoked, updLog, diag, crashed>>
    /\ UNCHANGED <<lastMsg, lastDid, tick, startupOptions, modeLog, rendLog, kbVars, extVars>>
    /\ UNCHANGED <<runVars, ctxDone, shutVars, hVars, termVars, finVars, killVars, goVars, sendVars, waitVars, modes>>

JobSendDrop == \E i \in DOMAIN jobCmds : JobSendDropOf(i)

\* Lines 960-963: the Send of the composite message takes its ctx.Done case.
JobMsgDrop ==
    /\ Alive
    /\ ctxDone
    /\ jobPc = "sent"
    /\ jobPc' = "dropped"
    /\ UNCHANGED <<jobForm, jobCmds, jobIdx, cst, invoked, updLog, diag, crashed>>
    /\ UNCHANGED <<lastMsg, lastDid, tick, startupOptions, modeLog, rendLog, kbVars, extVars>>
    /\ UNCHANGED <<runVars, ctxDone, shutVars, hVars, termVars, finVars, killVars, goVars, sendVars, waitVars, modes>>

\* ------------- eventLoop: a composite message inside a sequence (679-697)

\* The commands of the returned message: nil, or a Cmd returning a message.
NestKinds == {"nil", "cOther"}

NestLists == UNION {[1..n -> NestKinds] : n \in 1..MaxNested}

\* The sequences with one command, "cNest", that returns the composite message.
NestJobLists ==
    {l \in UNION {[1..n -> {"nil", "cOther", "cNest"}] : n \in 1..2} :
        Cardinality({i \in DOMAIN l : l[i] = "cNest"}) = 1}

\* The command of the sequence whose returned message is being run.
Nesting == {i \in DOMAIN cst : cst[i] = "nested"}

\* A command of the returned message whose p.Send has returned.
NestSettled == {"delivered", "dropped"}

\* Lines 683-688: the commands of a BatchMsg each get their goroutine at once;
\* lines 694-696: those of a sequenceMsg are run one after the other.
NestReady(k) ==
    \/ nestForm = "batch"
    \/ \A j \in 1..(k - 1) : nst[j] \in NestSettled

\* Line 679: cmd() returns a BatchMsg or a sequenceMsg and the sequence
\* goroutine takes that case of its type switch.
JobCmdReturnsNestOf(i) ==
    /\ Alive
    /\ jobForm = "sequence"
    /\ cst[i] = "running"
    /\ jobCmds[i] = "cNest"
    /\ cst' = [cst EXCEPT ![i] = "nested"]
    /\ UNCHANGED <<jobForm, jobCmds, jobPc, jobIdx, invoked, updLog, diag, crashed>>
    /\ UNCHANGED <<lastMsg, lastDid, tick, startupOptions, modeLog, rendLog, kbVars, extVars>>
    /\ UNCHANGED <<runVars, ctxDone, shutVars, hVars, termVars, finVars, killVars, goVars, sendVars, waitVars, modes>>

JobCmdReturnsNest == \E i \in DOMAIN jobCmds : JobCmdReturnsNestOf(i)

\* Lines 686 and 695: `p.Send(cmd())` with no check for nil.  Calling a nil Cmd
\* is a nil dereference: a panic in a goroutine that defers no recover, which
\* ends the process.  Any other command returns its message and the goroutine
\* is in Send.
NestInvokeOf(k) ==
    /\ Alive
    /\ Nesting # {}
    /\ nst[k] = "none"
    /\ NestReady(k)
    /\ IF nestCmds[k] = "nil"
       THEN /\ nst' = [nst EXCEPT ![k] = "faulted"]
            /\ crashed' = TRUE
       ELSE /\ nst' = [nst EXCEPT ![k] = "sending"]
            /\ UNCHANGED crashed
    /\ UNCHANGED <<nestForm, nestCmds>>
    /\ UNCHANGED <<jobForm, jobCmds, jobPc, jobIdx, cst, invoked, updLog, diag>>
    /\ UNCHANGED <<lastMsg, lastDid, tick, startupOptions, modeLog, rendLog, kbVars, relVars, turnVars>>
    /\ UNCHANGED <<runVars, ctxDone, shutVars, hVars, termVars, finVars, killVars, goVars, sendVars, waitVars, modes>>

NestInvoke == \E k \in DOMAIN nestCmds : NestInvokeOf(k)

\* Lines 485 and 732-734: the select receives the message of a command of the
\* returned message and gives it to Update, which returns no command.
LoopRecvNestMsgOf(k) ==
    /\ Alive
    /\ runPc = "loop"
    /\ nst[k] = "sending"
    /\ nst' = [nst EXCEPT ![k] = "delivered"]
    /\ model' = model + 1
    /\ pendingCmd' = "nil"
    /\ runPc' = "sendCmd"
    /\ UNCHANGED <<nestForm, nestCmds, jobVars>>
    /\ UNCHANGED <<loopErr, loopExit, retModel, retErr, batchLeft, nCmds, runKilled>>
    /\ UNCHANGED <<lastMsg, lastDid, tick, startupOptions, modeLog, rendLog, kbVars, relVars, turnVars>>
    /\ UNCHANGED <<ctxDone, shutVars, hVars, termVars, finVars, killVars, goVars, sendVars, waitVars, modes>>

LoopRecvNestMsg == \E k \in DOMAIN nestCmds : LoopRecvNestMsgOf(k)

\* Lines 960-963: that Send takes its ctx.Done case.
NestSendDropOf(k) ==
    /\ Alive
    /\ ctxDone
    /\ nst[k] = "sending"
    /\ nst' = [nst EXCEPT ![k] = "dropped"]
    /\ UNCHANGED <<nestForm, nestCmds, jobVars>>
    /\ UNCHANGED <<lastMsg, lastDid, tick, startupOptions, modeLog, rendLog, kbVars, relVars, turnVars>>
    /\ UNCHANGED <<runVars, ctxDone, shutVars, hVars, termVars, finVars, killVars, goVars, sendVars, waitVars, modes>>

NestSendDrop == \E k \in DOMAIN nestCmds : NestSendDropOf(k)

\* Lines 691-692 and 696-697: g.Wait() returns, or the inner range ends, and
\* the sequence goroutine goes on to its next command.
NestDone ==
    /\ Alive
    /\ \E i \in Nesting :
          /\ \A k \in DOMAIN nst : nst[k] \in NestSettled
          /\ cst' = [cst EXCEPT ![i] = "done"]
    /\ UNCHANGED <<jobForm, jobCmds, jobPc, jobIdx, invoked, updLog, diag, crashed>>
    /\ UNCHANGED <<lastMsg, lastDid, tick, startupOptions, modeLog, rendLog, kbVars, extVars>>
    /\ UNCHANGED <<runVars, ctxDone, shutVars, hVars, termVars, finVars, killVars, goVars, sendVars, waitVars, modes>>

\* ------------------- ReleaseTerminal and RestoreTerminal (1035-1113)

\* The modes of the mode table RestoreTerminal looks at, besides those of Modes.
RelModes == Modes \cup {"FocusEvent", "ButtonEventMouse", "AnyEventMouse", "SgrExtMouse"}

\* The modes a program enables and disables with messages in these runs.
RelToggled == {"BracketedPaste", "FocusEvent", "ButtonEventMouse", "AnyEventMouse",
               "GraphemeClustering"}

\* The startup options that set modes RestoreTerminal looks at.
RelOptions == {"withMouseCellMotion", "withMouseAllMotion", "withReportFocus"}

\* Lines 862-896: the mode table Run's startup leaves with the options `opts`.
RelStartupModes(opts) ==
    [m \in RelModes |->
        CASE m = "TextCursorEnable" -> "Reset"
          [] m = "BracketedPaste"   -> "Set"
          [] m = "ButtonEventMouse" ->
                IF "withMouseCellMotion" \in opts THEN "Set" ELSE "NotRecognized"
          [] m = "AnyEventMouse"    ->
                IF "withMouseCellMotion" \notin opts /\ "withMouseAllMotion" \in opts
                THEN "Set" ELSE "NotRecognized"
          [] m = "SgrExtMouse"      ->
                IF "withMouseCellMotion" \in opts \/ "withMouseAllMotion" \in opts
                THEN "Set" ELSE "NotRecognized"
          [] m = "FocusEvent"       ->
                IF "withReportFocus" \in opts THEN "Set" ELSE "NotRecognized"
          [] OTHER                  -> "NotRecognized"]

\* Lines 1070-1104: what RestoreTerminal writes, in order.
RestoreWrites ==
    (IF IsSet(modes["BracketedPaste"])
     THEN << <<"write", "set", "BracketedPaste">> >> ELSE <<>>)
    \o (IF active.modifyOtherKeys # 0
        THEN << <<"write", "KeyModifierOptions", active.modifyOtherKeys>> >> ELSE <<>>)
    \o (IF active.kittyFlags # 0
        THEN << <<"write", "PushKittyKeyboard", active.kittyFlags>> >> ELSE <<>>)
    \o (IF IsSet(modes["FocusEvent"])
        THEN << <<"write", "set", "FocusEvent">> >> ELSE <<>>)
    \o (IF IsSet(modes["ButtonEventMouse"]) \/ IsSet(modes["AnyEventMouse"])
        THEN IF "withMouseCellMotion" \in startupOptions
             THEN << <<"write", "set", "ButtonEventMouse">>,
                     <<"write", "set", "SgrExtMouse">> >>
             ELSE IF "withMouseAllMotion" \in startupOptions
                  THEN << <<"write", "set", "AnyEventMouse">>,
                          <<"write", "set", "SgrExtMouse">> >>
                  ELSE <<>>
        ELSE <<>>)
    \o (IF IsSet(modes["GraphemeClustering"])
        THEN << <<"write", "set", "GraphemeClustering">> >> ELSE <<>>)
    \o (IF colors["bg"] THEN << <<"write", "SetBackgroundColor">> >> ELSE <<>>)
    \o (IF colors["fg"] THEN << <<"write", "SetForegroundColor">> >> ELSE <<>>)
    \o (IF colors["cc"] THEN << <<"write", "SetCursorColor">> >> ELSE <<>>)

\* Lines 523-542 for the modes of RelToggled.
LoopEnableRel ==
    \E m \in RelToggled : LoopControl(<<"enableMode", m>>, EnableMode(m), EnableDoes(m))

\* Lines 544-559 for the modes of RelToggled.
LoopDisableRel ==
    \E m \in RelToggled : LoopControl(<<"disableMode", m>>, DisableMode(m), DisableDoes(m))

\* Lines 574-596: a set-colour message with a colour: the sequence is written
\* and the colour kept; then Update, the hand-off of its command, the render.
LoopSetColor ==
    /\ Alive
    /\ runPc = "loop"
    /\ hpc["commands"] = "run"
    /\ model < MaxLoopMsgs
    /\ \E c \in {"bg", "fg", "cc"} :
          /\ ~colors[c]
          /\ colors' = [colors EXCEPT ![c] = TRUE]
          /\ lastMsg' = <<"setColor", c>>
          /\ lastDid' = << <<"write", "color", c>> >> \o AfterSwitch
    /\ tick' = ~tick
    /\ model' = model + 1
    /\ Rendered
    /\ UNCHANGED <<ignoreSignals, released, restLog, restFrom, nReleases, sigLog, nestVars>>
    /\ UNCHANGED <<runPc, loopErr, loopExit, retModel, retErr, pendingCmd, batchLeft, nCmds, runKilled>>
    /\ UNCHANGED <<ctxDone, shutVars, hVars, termVars, finVars, killVars, goVars, sendVars, waitVars>>
    /\ UNCHANGED <<modes, startupOptions, modeLog, rendLog, kbVars, jobVars>>

\* ReleaseTerminal, lines 1037-1049: signals are ignored from now on, the input
\* reader is cancelled and its read loop waited for, the renderer is stopped
\* with a flush, the terminal state is restored.
ReleaseTerminal ==
    /\ Alive
    /\ Phase = "running"
    /\ ~released
    /\ nReleases < MaxReleases
    /\ nReleases' = nReleases + 1
    /\ ignoreSignals' = TRUE
    /\ IF rendererSet
       THEN StopRenderer
       ELSE UNCHANGED <<rOnce, flushLoops>>
    /\ RestoreTerminalState
    /\ released' = TRUE
    /\ UNCHANGED <<colors, restLog, restFrom, sigLog, nestVars, turnVars>>
    /\ UNCHANGED <<inputReader, rendererSet>>
    /\ UNCHANGED <<lastMsg, lastDid, tick, startupOptions, modeLog, rendLog, kbVars, jobVars>>
    /\ UNCHANGED <<runVars, ctxDone, shutVars, hVars, finVars, killVars, goVars, sendVars, waitVars, modes>>

\* RestoreTerminal, lines 1055-1112, with initTerminal and initInputReader
\* succeeding: signals are heeded again, the terminal is initialised, a repaint
\* is sent from its own goroutine if the alt screen is recorded as reset, the
\* renderer is started and the sequences of RestoreWrites are written.
RestoreTerminal ==
    /\ Alive
    /\ released
    /\ ignoreSignals' = FALSE
    /\ InitTerminal
    /\ pend' = [pend EXCEPT !["other"] =
                  IF IsReset(modes["AltScreenSaveCursor"]) THEN @ + 1 ELSE @]
    /\ StartRenderer
    /\ restLog' = RestoreWrites
    /\ restFrom' = [modes |-> modes, active |-> active, colors |-> colors]
    /\ released' = FALSE
    /\ UNCHANGED <<colors, nReleases, sigLog, nestVars, turnVars>>
    /\ UNCHANGED <<inputReader, rendererSet, cmdRun>>
    /\ UNCHANGED <<lastMsg, lastDid, tick, startupOptions, modeLog, rendLog, kbVars, jobVars>>
    /\ UNCHANGED <<runVars, ctxDone, shutVars, hVars, finVars, killVars, sendVars, waitVars, modes>>

\* --------------------------------------------------------- specifications

\* The goroutine running Run, after the call.
RunStep ==
    \/ RunInitTerminal \/ RunStartup \/ RunInit
    \/ LoopCtxDone \/ LoopRecvPend \/ LoopSendCmd \/ LoopBatchSend
    \/ RunAfterLoop \/ RunReturn \/ RunRecoverReturn

\* The body of shutdown, in whichever goroutine executes it.
ShutStep == ShutCancel \/ ShutHandlers \/ ShutRenderer

\* The goroutines the program starts.
GoStep ==
    \/ HandlerCtxDone \/ ForwardInitCmd
    \/ CmdReturns \/ CmdPanics
    \/ PendDrop

Core == RunCall \/ RunStep \/ ShutStep \/ GoStep

KillSteps == KillCall

SignalSteps == SignalArrives \/ LoopRecvSignal

SendSteps == SendCall \/ LoopRecvSend \/ SendDrop

WaitSteps == WaitCall \/ WaitReturn

\* The lifecycle: Run, Kill, cancellation from outside, signals.
Next == Core \/ KillSteps \/ ExtCancel \/ SignalSteps

Spec == Init /\ [][Next]_vars

\* The scheduler runs every goroutine that can take a step: the goroutine in
\* Run, the one executing the shutdown body, each handler goroutine, each
\* goroutine parked in Send.  A command may
\* run for ever, and nothing from outside has to happen.
Fairness ==
    /\ WF_vars(RunStep \/ LoopRecvSignal)
    /\ WF_vars(ShutStep)
    /\ \A h \in HandlerNames : WF_vars(HandlerCtxDoneOf(h))
    /\ WF_vars(ForwardInitCmd \/ HandlerCtxDoneOf("initCmd"))
    /\ WF_vars(PendDrop)

\* Programs on which Kill is called, under that scheduler.
KillNext == Core \/ KillSteps

KillSpec == Init /\ [][KillNext]_vars /\ Fairness

\* Programs with outside callers of Send and Quit.
SendNext == Core \/ SendSteps

SendSpec == Init /\ [][SendNext]_vars

\* Programs with a goroutine in Wait.
WaitNext == Core \/ WaitSteps

WaitSpec == Init /\ [][WaitNext]_vars /\ Fairness /\ WF_vars(WaitReturn)

\* The program inside eventLoop: the state Run's startup leaves with the
\* options `opts` when Init returns no command.
InLoop ==
    /\ runPc = "loop"
    /\ model = 0
    /\ loopErr = "none"
    /\ loopExit = "none"
    /\ retModel = <<>>
    /\ retErr = "none"
    /\ pendingCmd = "nil"
    /\ batchLeft = <<>>
    /\ nCmds = 0
    /\ runKilled = FALSE
    /\ ctxDone = FALSE
    /\ once = "fresh"
    /\ shutPc = "none"
    /\ shutBy = "none"
    /\ shutKill = FALSE
    /\ shutLog = <<>>
    /\ hSnap = {}
    /\ handlers = {"signals", "resize", "commands"}
    /\ hpc = [h \in HandlerNames |->
                CASE h = "signals"  -> "listen"
                  [] h = "resize"   -> "closed"
                  [] h = "commands" -> "run"
                  [] OTHER          -> "off"]
    /\ fwdCmd = "nil"
    /\ inputReader = TRUE
    /\ rendererSet = TRUE
    /\ rOnce = "fresh"
    /\ flushLoops = 1
    /\ termDirty = TRUE
    /\ finishedMade = TRUE
    /\ finishedBuf = 0
    /\ nFinished = 0
    /\ killPc = "idle"
    /\ killWhen = "none"
    /\ pend = [k \in MsgKinds |-> 0]
    /\ cmdRun = [c \in CmdKinds |-> 0]
    /\ sendPc = [s \in Senders |-> "idle"]
    /\ sendKind = [s \in Senders |-> "none"]
    /\ sendWhen = [s \in Senders |-> "none"]
    /\ waitPc = "idle"
    /\ waitChan = "none"

\* Programs made with any of the mode options, inside eventLoop.
ModeInit ==
    /\ InLoop
    /\ goos = "other"
    /\ KbdFresh
    /\ JobFresh
    /\ ExtFresh
    /\ startupOptions \in SUBSET ModeOptions
    /\ modes = [m \in Modes |->
                  CASE m = "TextCursorEnable"    -> "Reset"
                    [] m = "AltScreenSaveCursor" ->
                          IF "withAltScreen" \in startupOptions
                          THEN "Set" ELSE "NotRecognized"
                    [] m = "BracketedPaste"      ->
                          IF "withoutBracketedPaste" \in startupOptions
                          THEN "NotRecognized" ELSE "Set"
                    [] OTHER                     -> "NotRecognized"]
    /\ lastMsg = <<>>
    /\ lastDid = <<>>
    /\ tick = FALSE
    /\ modeLog = <<>>
    /\ rendLog = StartupRenders(startupOptions)

\* The loop handling mode messages.
ModeNext == LoopEnableMode \/ LoopDisableMode \/ LoopModeReport

ModeSpec == ModeInit /\ [][ModeNext]_vars

\* Programs of either build inside eventLoop, made without mode options.
KbdInit ==
    /\ InLoop
    /\ goos \in {"windows", "other"}
    /\ KbdFresh
    /\ JobFresh
    /\ ExtFresh
    /\ startupOptions = {}
    /\ modes = [m \in Modes |->
                  CASE m = "TextCursorEnable" -> "Reset"
                    [] m = "BracketedPaste"   -> "Set"
                    [] OTHER                  -> "NotRecognized"]
    /\ lastMsg = <<>>
    /\ lastDid = <<>>
    /\ tick = FALSE
    /\ modeLog = <<>>
    /\ rendLog = StartupRenders(startupOptions)

\* The negotiation without the terminal.
KbdQuietNext ==
    \/ LoopEnableKbd \/ LoopDisableKbd
    \/ KbdTimerFires \/ KbdUnblocked \/ LoopKbdTimeout

\* The negotiation with a terminal that may answer.
KbdNext == KbdQuietNext \/ TerminalReplies \/ LoopKbdReply

KbdSpec == KbdInit /\ [][KbdNext]_vars

\* Time passes and the loop keeps receiving: a timer that was set fires unless
\* its goroutine was unblocked first, and a report sent to the loop is received.
KbdFairness ==
    /\ WF_vars(KbdTimerFires)
    /\ WF_vars(LoopKbdTimeout)

\* A running program whose terminal never answers.
KbdQuietSpec == KbdInit /\ [][KbdQuietNext]_vars /\ KbdFairness

\* The calls of Run's startup that can fail.
StartupFailures ==
    \/ RunOpenTTYFails \/ RunInitTerminalFails
    \/ RunGetSizeFails \/ RunInitInputReaderFails

\* The lifecycle with a startup that may fail and a Kill at any moment.
StartNext == Core \/ KillSteps \/ StartupFailures

StartSpec == Init /\ [][StartNext]_vars

\* A program inside eventLoop to which one BatchMsg or sequenceMsg is sent.
CmdInit ==
    /\ InLoop
    /\ goos = "other"
    /\ KbdFresh
    /\ startupOptions = {}
    /\ modes = [m \in Modes |->
                  CASE m = "TextCursorEnable" -> "Reset"
                    [] m = "BracketedPaste"   -> "Set"
                    [] OTHER                  -> "NotRecognized"]
    /\ lastMsg = <<>>
    /\ lastDid = <<>>
    /\ tick = FALSE
    /\ modeLog = <<>>
    /\ rendLog = StartupRenders(startupOptions)
    /\ jobForm \in {"batch", "sequence"}
    /\ jobCmds \in JobLists
    /\ jobPc = "sent"
    /\ jobIdx = 0
    /\ cst = [i \in DOMAIN jobCmds |-> "none"]
    /\ invoked = [i \in DOMAIN jobCmds |-> 0]
    /\ updLog = <<>>
    /\ diag = <<>>
    /\ crashed = FALSE
    /\ ExtFresh

\* The steps of the loop, of the command goroutines and of a Kill.
CmdNext ==
    \/ LoopRecvBatch \/ LoopBatchHand \/ LoopRecvSequence \/ SeqInvoke
    \/ JobCmdReturns \/ JobCmdPanics \/ JobDiagnostic
    \/ LoopRecvJobMsg \/ JobSendDrop \/ JobMsgDrop
    \/ LoopSendCmd \/ LoopCtxDone
    \/ KillCall \/ ShutStep \/ HandlerCtxDone


CmdSpec == CmdInit /\ [][CmdNext]_vars

\* The loop keeps receiving while goroutines are parked in Send, the executor
\* takes the command the loop hands it, and a shutdown body that has started
\* runs on.
CmdFairness ==
    /\ SF_vars(LoopRecvJobMsg)
    /\ WF_vars(LoopSendCmd)
    /\ WF_vars(LoopBatchHand)
    /\ WF_vars(ShutStep)

CmdFairSpec == CmdSpec /\ CmdFairness

\* A program inside eventLoop to which a sequenceMsg is sent, one command of
\* which returns a BatchMsg or a sequenceMsg.
NestInit ==
    /\ InLoop
    /\ goos = "other"
    /\ KbdFresh
    /\ startupOptions = {}
    /\ modes = [m \in Modes |->
                  CASE m = "TextCursorEnable" -> "Reset"
                    [] m = "BracketedPaste"   -> "Set"
                    [] OTHER                  -> "NotRecognized"]
    /\ lastMsg = <<>>
    /\ lastDid = <<>>
    /\ tick = FALSE
    /\ modeLog = <<>>
    /\ rendLog = StartupRenders(startupOptions)
    /\ jobForm = "sequence"
    /\ jobCmds \in NestJobLists
    /\ jobPc = "sent"
    /\ jobIdx = 0
    /\ cst = [i \in DOMAIN jobCmds |-> "none"]
    /\ invoked = [i \in DOMAIN jobCmds |-> 0]
    /\ updLog = <<>>
    /\ diag = <<>>
    /\ crashed = FALSE
    /\ nestForm \in {"batch", "sequence"}
    /\ nestCmds \in NestLists
    /\ nst = [k \in DOMAIN nestCmds |-> "none"]
    /\ RelFresh
    /\ TurnFresh

NestNext ==
    \/ LoopRecvSequence \/ SeqInvoke
    \/ JobCmdReturns \/ JobCmdReturnsNest
    \/ NestInvoke \/ LoopRecvNestMsg \/ NestSendDrop \/ NestDone
    \/ LoopRecvJobMsg \/ JobSendDrop \/ JobMsgDrop
    \/ LoopSendCmd \/ LoopCtxDone
    \/ KillCall \/ ShutStep \/ HandlerCtxDone

NestSpec == NestInit /\ [][NestNext]_vars

\* A program inside eventLoop, made with any of the options of RelOptions and
\* without a keyboard negotiation, whose terminal is released and restored.
RelInit ==
    /\ InLoop
    /\ goos = "other"
    /\ KbdFresh
    /\ JobFresh
    /\ ExtFresh
    /\ startupOptions \in SUBSET RelOptions
    /\ modes = RelStartupModes(startupOptions)
    /\ lastMsg = <<>>
    /\ lastDid = <<>>
    /\ tick = FALSE
    /\ modeLog = <<>>
    /\ rendLog = StartupRenders(startupOptions)

RelNext ==
    \/ LoopEnableRel \/ LoopDisableRel \/ LoopSetColor
    \/ ReleaseTerminal \/ RestoreTerminal

RelSpec == RelInit /\ [][RelNext]_vars

\* Signals arriving at a running program whose terminal is released and
\* restored.
SigNext ==
    \/ SignalArrives \/ LoopRecvSignal
    \/ ReleaseTerminal \/ RestoreTerminal
    \/ LoopSetColor

SigSpec == RelInit /\ [][SigNext]_vars

\* The renderer of a running program stopped and started by ReleaseTerminal,
\* RestoreTerminal and the teardown, whoever starts it.
StopNext ==
    \/ ReleaseTerminal \/ RestoreTerminal
    \/ SignalArrives \/ LoopRecvSignal
    \/ KillCall \/ ShutStep
    \/ HandlerCtxDone \/ LoopCtxDone
    \/ RunAfterLoop \/ RunReturn \/ RunRecoverReturn

StopSpec == RelInit /\ [][StopNext]_vars

\* ------------------------------------------------------------------ claims

StepLabels ==
    {"cancel", "handlers", "inputCancel", "waitReadLoop", "inputClose",
     "rendererStop", "flush", "restore", "finished"}

\* How often a teardown step has been executed.
Count(l) == Cardinality({i \in DOMAIN shutLog : shutLog[i] = l})

\* The teardown step has been executed.
Done(l) == \E i \in DOMAIN shutLog : shutLog[i] = l

\* C1: whatever Quit, Kill, panics, Interrupt and cancellation occur, no teardown
\* step of shutdown is ever executed a second time, and when Run has returned
\* the one shutdown sequence has been executed to its end.
C1_ShutdownExactlyOnce ==
    /\ \A i \in DOMAIN shutLog :
         /\ shutLog[i] \in StepLabels
         /\ \A j \in DOMAIN shutLog : i < j => shutLog[i] # shutLog[j]
    /\ nFinished <= 1
    /\ runPc = "returned" =>
         /\ once = "done"
         /\ Done("cancel") /\ Done("handlers") /\ Done("restore")

\* Run and a Kill issued while Run was running have both called shutdown, and a
\* signal-made Interrupt was processed too.
C1_Witness ==
    /\ runPc = "returned"
    /\ KillReturned /\ killWhen = "running"
    /\ loopExit = "interrupt"
    /\ shutBy = "run"

\* C2: once Run has returned, the terminal state Run initialised has been restored.
C2_TerminalRestored == runPc = "returned" => ~termDirty

\* The place of a teardown step in the order of lines 998-1020.
Rank(l) ==
    CASE l = "cancel"       -> 1
      [] l = "handlers"     -> 2
      [] l = "inputCancel"  -> 3
      [] l = "waitReadLoop" -> 4
      [] l = "inputClose"   -> 5
      [] l = "rendererStop" -> 6
      [] l = "flush"        -> 7
      [] l = "restore"      -> 8
      [] l = "finished"     -> 9

\* C3: the steps of the shutdown execution occur in the order cancel, handler
\* channels observed closed, input reader cancelled (read loop waited for only
\* when not a hard kill) and closed, renderer stopped (flushing only when not a
\* hard kill), terminal restored, completion signalled (once, and only when not
\* a hard kill).
C3_ShutdownOrder ==
    /\ \A i \in 1 .. Len(shutLog) - 1 : Rank(shutLog[i]) < Rank(shutLog[i + 1])
    /\ \A l \in StepLabels \ {"cancel"} : Done(l) => Done("cancel")
    /\ \A l \in StepLabels \ {"cancel", "handlers"} : Done(l) => Done("handlers")
    /\ Done("handlers") => \A h \in hSnap : hpc[h] = "closed"
    /\ Done("waitReadLoop") => Done("inputCancel") /\ ~shutKill
    /\ Done("inputClose") <=> Done("inputCancel")
    /\ Done("flush") => Done("rendererStop") /\ ~shutKill
    /\ Done("rendererStop") /\ ~shutKill => Done("flush")
    /\ Done("finished") => Done("restore") /\ ~shutKill /\ nFinished = 1
    /\ once = "done" => Done("restore") /\ (Done("finished") <=> ~shutKill)
    /\ nFinished = Count("finished")

\* A graceful shutdown that executed every step, with every handler registered.
C3_Witness ==
    /\ once = "done"
    /\ ~shutKill
    /\ Len(shutLog) = 9
    /\ hSnap = HandlerNames

\* C4 as claimed, the error: when the loop processed a Quit message, Run
\* returns a nil error.
C4_QuitReturnsNil ==
    runPc = "returned" /\ loopExit = "quit" => retErr = "nil"

\* C4 as amended: when the loop processed a Quit message, Run returns the model
\* of the last Update, with a nil error if the context was not cancelled when
\* Run examined it after the loop and ErrProgramKilled if it was; unless the
\* final View panicked, when Run returns a nil Model and a nil error.
C4_QuitReturns ==
    runPc = "returned" /\ loopExit = "quit" =>
        \/ /\ retModel = <<model>>
           /\ retErr = IF runKilled THEN "ErrProgramKilled" ELSE "nil"
        \/ /\ retModel = <<>>
           /\ retErr = "nil"
           /\ ~runKilled

\* Run returned nil and the model of the second Update after a Quit message.
C4_Witness ==
    /\ runPc = "returned" /\ loopExit = "quit"
    /\ retErr = "nil" /\ retModel = <<2>>

\* C5: when the loop processed an Interrupt message, Run returns ErrInterrupted.
C5_InterruptReturnsErrInterrupted ==
    runPc = "returned" /\ loopExit = "interrupt" => retErr = "ErrInterrupted"

\* Run returned after an Interrupt message although Kill was called meanwhile.
C5_Witness ==
    /\ runPc = "returned" /\ loopExit = "interrupt"
    /\ killWhen = "running"
    /\ shutBy = "kill"

\* C6: after Kill is called on a running program, or its context is cancelled
\* from outside, Run eventually returns.
C6_KillThenRunReturns ==
    ((killWhen = "running" \/ ctxDone) /\ Phase = "running") ~> (runPc = "returned")

\* C7: a Send that returned without its message having been received found the
\* context cancelled; a Send issued after Run has returned is never received by
\* the loop and is never blocked: the ctx.Done case of its select is ready.
C7_SendAfterExit ==
    \A s \in Senders :
        /\ sendPc[s] = "dropped" => ctxDone
        /\ sendWhen[s] = "after" =>
             /\ sendPc[s] # "delivered"
             /\ sendPc[s] = "select" => SendCtxReady

\* A Send issued after a Run that ended with a Quit message has returned.
C7_Witness ==
    \E s \in Senders :
        /\ sendWhen[s] = "after" /\ sendPc[s] = "dropped"
        /\ loopExit = "quit" /\ retErr = "nil"

\* C8: a Quit called while the program is not running (before Run is called or
\* after it returned) has no effect: its message never reaches the event loop.
C8_QuitNoOpWhenNotRunning ==
    \A s \in Senders :
        sendKind[s] = "quit" /\ sendWhen[s] \in {"before", "after"} =>
            sendPc[s] # "delivered"

\* C9: once shutdown has completed, a goroutine blocked in Wait on the channel
\* Run made returns.
C9_WaitReturns ==
    (waitPc = "blocked" /\ waitChan = "chan" /\ once = "done") ~> (waitPc = "returned")

\* The step handles an enable-mode message for a mode recorded as set, or a
\* disable-mode message for a mode recorded as reset.
RedundantModeMsg ==
    /\ tick' # tick
    /\ \E m \in Modes :
        \/ lastMsg' = <<"enableMode", m>> /\ IsSet(modes[m])
        \/ lastMsg' = <<"disableMode", m>> /\ IsReset(modes[m])

\* What the loop did for the last message, by kind.
Did(kind) == SelectSeq(lastDid, LAMBDA d : d[1] = kind)

\* C10 as claimed: such a message leaves the mode table unchanged, writes no
\* escape sequence and calls no renderer method.
C10_RedundantModeNoRendererCall ==
    [][RedundantModeMsg =>
        /\ modes' = modes
        /\ Did("write")' = <<>>
        /\ Did("renderer")' = <<>>]_vars

\* C10 as amended: such a message leaves the mode table unchanged, writes no
\* escape sequence and calls no renderer method but the render of the new model
\* that follows Update for every message.
C10_RedundantModeNoOp ==
    [][RedundantModeMsg =>
        /\ modes' = modes
        /\ Did("write")' = <<>>
        /\ Did("renderer")' = << <<"renderer", "render">> >>]_vars

\* An enable message for the alt screen that the startup option had set, and a
\* disable message for a cursor already hidden, have been handled.
C10_Witness ==
    /\ lastDid = AfterSwitch
    /\ \/ lastMsg = <<"enableMode", "AltScreenSaveCursor">>
       \/ lastMsg = <<"disableMode", "TextCursorEnable">>

\* The enable and disable messages for mode m the loop has handled, in order.
Toggles(m) ==
    SelectSeq(modeLog, LAMBDA x : x[2] = m /\ x[1] \in {"enableMode", "disableMode"})

\* How many of them were of the kind.
NumberOf(kind, m) == Len(SelectSeq(Toggles(m), LAMBDA x : x[1] = kind))

\* Mode m had no entry in the table when the loop started, and no report of
\* the terminal has been stored for it since.
OnlyToggled(m) ==
    /\ m # "TextCursorEnable"
    /\ m = "AltScreenSaveCursor" => "withAltScreen" \notin startupOptions
    /\ m = "BracketedPaste" => "withoutBracketedPaste" \in startupOptions
    /\ \A i \in DOMAIN modeLog : modeLog[i][2] = m => modeLog[i][1] # "modeReport"

\* C11 as claimed: after any sequence of enable and disable messages for a
\* mode that had no entry, the mode is recorded as set exactly when the number
\* of enables minus the number of disables is odd.
C11_ModeIsParityOfNetEnables ==
    \A m \in Modes :
        OnlyToggled(m) =>
            (IsSet(modes[m]) <=>
                (NumberOf("enableMode", m) - NumberOf("disableMode", m)) % 2 = 1)

\* C11 as amended: after any sequence of enable and disable messages for a
\* mode that had no entry, the mode is recorded as set when the last of them
\* was an enable, as reset when it was a disable, and has no entry when the
\* sequence is empty.
C11_ModeIsLastToggle ==
    \A m \in Modes :
        OnlyToggled(m) =>
            modes[m] =
                IF Toggles(m) = <<>> THEN "NotRecognized"
                ELSE IF Toggles(m)[Len(Toggles(m))][1] = "enableMode" THEN "Set"
                ELSE "Reset"

\* Two enables and no disable have been handled for grapheme clustering, and an
\* enable after a disable for bracketed paste that the startup left alone.
C11_Witness ==
    \/ /\ OnlyToggled("GraphemeClustering")
       /\ NumberOf("enableMode", "GraphemeClustering") = 2
       /\ NumberOf("disableMode", "GraphemeClustering") = 0
       /\ modes["GraphemeClustering"] = "Set"
    \/ /\ OnlyToggled("BracketedPaste")
       /\ Toggles("BracketedPaste")
            = << <<"disableMode", "BracketedPaste">>, <<"enableMode", "BracketedPaste">> >>
       /\ modes["BracketedPaste"] = "Set"

\* The renderer's alt-screen transitions so far, the startup's included.
AltCalls ==
    SelectSeq(rendLog, LAMBDA c : c \in {"enterAltScreen", "exitAltScreen"})

\* The step handles an enable or disable message for the alt screen.
AltScreenMsg ==
    /\ tick' # tick
    /\ lastMsg'[2] = "AltScreenSaveCursor"
    /\ lastMsg'[1] \in {"enableMode", "disableMode"}

\* C12: an alt-screen message that changes the recorded state issues exactly
\* one renderer transition and any other none; enterAltScreen is never called
\* right after an enterAltScreen, the startup's included; the alt screen is
\* recorded as set exactly when the last transition was an enter.
C12_AltScreenTransitions ==
    [][AltScreenMsg =>
        /\ Len(AltCalls') - Len(AltCalls)
             = IF modes'["AltScreenSaveCursor"] # modes["AltScreenSaveCursor"]
               THEN 1 ELSE 0
        /\ \A i \in 1 .. Len(AltCalls') - 1 :
             ~(AltCalls'[i] = "enterAltScreen" /\ AltCalls'[i + 1] = "enterAltScreen")
        /\ IsSet(modes'["AltScreenSaveCursor"])
             <=> (AltCalls' # <<>> /\ AltCalls'[Len(AltCalls')] = "enterAltScreen")]_vars

\* The alt screen was toggled on, off, on and the renderer made the three
\* transitions; or it was enabled again after the startup option had entered it.
C12_Witness ==
    \/ /\ modeLog = << <<"enableMode", "AltScreenSaveCursor">>,
                      <<"disableMode", "AltScreenSaveCursor">>,
                      <<"enableMode", "AltScreenSaveCursor">> >>
       /\ AltCalls = <<"enterAltScreen", "exitAltScreen", "enterAltScreen">>
    \/ /\ "withAltScreen" \in startupOptions
       /\ modeLog = << <<"enableMode", "AltScreenSaveCursor">> >>
       /\ AltCalls = <<"enterAltScreen">>

\* The requested enhancements are the bitwise OR of the bitmasks and the
\* maximum of the levels of the enable messages handled.
RequestedIsMerge ==
    /\ requested.kittyFlags < 2^5
    /\ \A i \in KittyBits :
         BitOf(requested.kittyFlags, i) = 1
           <=> \E j \in DOMAIN kbReqs : BitOf(kbReqs[j].kittyFlags, i) = 1
    /\ \A j \in DOMAIN kbReqs : kbReqs[j].modifyOtherKeys <= requested.modifyOtherKeys
    /\ \/ requested.modifyOtherKeys = 0
       \/ \E j \in DOMAIN kbReqs : kbReqs[j].modifyOtherKeys = requested.modifyOtherKeys

\* The sequences written for the enable message handled last carry the
\* requested bitmask and level.
NegotiationCarriesRequested ==
    lastMsg # <<>> /\ lastMsg[1] = "enableKbd" =>
        /\ requested.kittyFlags > 0 =>
             \E i \in DOMAIN lastDid :
                lastDid[i] = <<"write", "PushKittyKeyboard", requested.kittyFlags>>
        /\ requested.modifyOtherKeys > 0 =>
             \E i \in DOMAIN lastDid :
                lastDid[i] = <<"write", "KeyModifierOptions", requested.modifyOtherKeys>>
        /\ \A i \in DOMAIN lastDid :
             lastDid[i][1] = "write" /\ Len(lastDid[i]) = 3 =>
                lastDid[i][3] \in {requested.kittyFlags, requested.modifyOtherKeys}

\* C13 as claimed: after enable requests with no disable, the requested bitmask
\* is the OR and the requested level the maximum of all the requests, and the
\* negotiation sequence written carries them.
C13_RequestedIsOrAndMax ==
    ~kbDisabled => RequestedIsMerge /\ NegotiationCarriesRequested

\* C13 as amended: that holds on every build but Windows, where an enable
\* request changes nothing and writes nothing.
C13_RequestedIsOrAndMaxOffWindows ==
    ~kbDisabled =>
        IF goos = "windows"
        THEN /\ requested = NoEnhancements
             /\ lastMsg # <<>> /\ lastMsg[1] = "enableKbd" => lastDid = AfterSwitch
        ELSE RequestedIsMerge /\ NegotiationCarriesRequested

\* A request for flag 2 and then one for flag 1 with level 1 have been handled:
\* bitmask 3 and level 1 are requested and written.
C13_Witness ==
    /\ goos = "other"
    /\ kbReqs = << [kittyFlags |-> 2, modifyOtherKeys |-> 0],
                  [kittyFlags |-> 1, modifyOtherKeys |-> 1] >>
    /\ requested = [kittyFlags |-> 3, modifyOtherKeys |-> 1]
    /\ lastDid = << <<"write", "KeyModifierOptions", 1>>, <<"write", "QueryModifyOtherKeys">>,
                    <<"write", "PushKittyKeyboard", 3>>, <<"write", "RequestKittyKeyboard">> >>
                 \o AfterSwitch

\* C14: with a terminal that never answers, every negotiation that is waiting
\* ends, and the active enhancements are then bitmask 0 and level 0.
C14_NegotiationResolves ==
    (kbWait + kbSend > 0) ~> (kbWait + kbSend = 0 /\ active = NoEnhancements)

\* Two requests have been handled, a timeout's empty report was the last
\* message, and no negotiation is waiting any more.
C14_Witness ==
    /\ goos = "other"
    /\ Len(kbReqs) = 2 /\ ~kbDisabled
    /\ nReplies = 0
    /\ lastMsg = <<"kbdReport", NoEnhancements>>
    /\ kbWait = 0 /\ kbSend = 0
    /\ active = NoEnhancements

\* C15: once the terminal's report has been handled while the negotiation was
\* still waiting for it, the active enhancements stay those of the report.
C15_ConfirmationStays ==
    kbConfirmed # <<>> => active = kbConfirmed[1]

\* C16: right after a disable message the active and the requested
\* enhancements are all zero.
C16_DisableZeroesAll ==
    lastMsg = <<"disableKbd">> =>
        active = NoEnhancements /\ requested = NoEnhancements

\* How often the message of command i has reached Update.
Deliveries(i) == Cardinality({k \in DOMAIN updLog : updLog[k] = i})

\* The commands of the message that are not nil.
NonNil == {i \in DOMAIN jobCmds : jobCmds[i] # "nil"}

\* The commands whose goroutine is parked in Send with the command's message.
Sending == {i \in DOMAIN cst : cst[i] = "sending"}

\* Each command of a batch is invoked at most once and a nil one never; once
\* the loop is through the batch every non-nil command has been invoked; no
\* message reaches Update twice or without its command having been invoked,
\* and none is dropped while the program is not terminated.
BatchOnceEach ==
    jobForm = "batch" =>
        /\ \A i \in DOMAIN jobCmds :
              /\ invoked[i] = (IF i \in NonNil /\ cst[i] # "none" THEN 1 ELSE 0)
              /\ Deliveries(i) = (IF cst[i] = "delivered" THEN 1 ELSE 0)
              /\ cst[i] = "delivered" => invoked[i] = 1
              /\ cst[i] = "dropped" => ctxDone
        /\ jobPc = "taken" => \A i \in NonNil : invoked[i] = 1

\* C17: when the running loop processes a batch, every non-nil command of it is
\* invoked exactly once, and the message of each command that returned is
\* given to Update exactly once unless the program is terminated first: the
\* goroutines parked in Send with such messages are all received from.
C17_BatchInvokesAndDeliversOnce ==
    /\ []BatchOnceEach
    /\ (jobForm = "batch" /\ Sending # {}) ~> (ctxDone \/ Sending = {})

\* A batch of three commands, all invoked once, whose messages reached Update
\* in an order that is not the order of the batch.
C17_Witness ==
    /\ jobForm = "batch"
    /\ jobCmds = <<"cOther", "cOther", "cOther">>
    /\ \A i \in 1..3 : invoked[i] = 1
    /\ updLog = <<3, 1, 2>>
    /\ ~ctxDone

\* The commands of the message being run: invoked and not yet through Send.
InFlight == {i \in DOMAIN cst : cst[i] \in {"running", "sending"}}

Panicked == {i \in DOMAIN cst : cst[i] \in {"recovering", "printed", "panicked"}}

\* C19: a panic escaping a command, a member of a batch or of a sequence
\* included, calls the shutdown with kill set, the terminal is restored when
\* the diagnostic is printed, and the process is not left dead with the
\* terminal unrestored.
C19_CommandPanicRestores ==
    /\ Panicked # {} => once # "fresh"
    /\ \A k \in DOMAIN diag : ~diag[k]
    /\ ~(crashed /\ termDirty)

\* Run has returned the error of a failed startup call.
StartupFailed == runPc = "returned" /\ retErr = "errStartup"

\* C20: a startup failure is returned with the initial model, the event loop
\* has not run, and nothing Run changed in the terminal is left unrestored.
C20_StartupFailureLeavesNothing ==
    StartupFailed =>
        /\ retModel = InitialModel
        /\ loopExit = "none"
        /\ model = 0
        /\ ~termDirty

\* C21: a nil command is never invoked and causes no fault, as a member of a
\* sequence and as a member of a batch or sequence that a command of the
\* sequence returns.
C21_NilIsNoOp ==
    /\ \A i \in DOMAIN jobCmds :
          jobCmds[i] = "nil" => invoked[i] = 0 /\ cst[i] \in {"none", "skipped"}
    /\ \A k \in DOMAIN nestCmds :
          nestCmds[k] = "nil" => nst[k] = "none"
    /\ ~crashed

\* RestoreTerminal wrote the sequence w.
Rewritten(w) == \E k \in DOMAIN restLog : restLog[k] = w

\* C22: after a ReleaseTerminal and a RestoreTerminal the enable sequence of
\* every mode the table held as set (bracketed paste, focus reporting, either
\* mouse mode, grapheme clustering), of each non-zero active keyboard
\* enhancement and of each set colour has been written again.
C22_RestoreReappliesAll ==
    restFrom # <<>> =>
        /\ \A m \in RelToggled :
              IsSet(restFrom.modes[m]) => Rewritten(<<"write", "set", m>>)
        /\ restFrom.active.modifyOtherKeys # 0 =>
              Rewritten(<<"write", "KeyModifierOptions", restFrom.active.modifyOtherKeys>>)
        /\ restFrom.active.kittyFlags # 0 =>
              Rewritten(<<"write", "PushKittyKeyboard", restFrom.active.kittyFlags>>)
        /\ restFrom.colors["bg"] => Rewritten(<<"write", "SetBackgroundColor">>)
        /\ restFrom.colors["fg"] => Rewritten(<<"write", "SetForegroundColor">>)
        /\ restFrom.colors["cc"] => Rewritten(<<"write", "SetCursorColor">>)

\* The loop takes the BatchMsg from the channel.
BatchTaken == jobPc = "sent" /\ jobPc' = "fanout"

\* The loop takes a message from the channel: the composite message, or the
\* message of one of its commands.
MsgTaken ==
    \/ jobPc = "sent" /\ jobPc' \in {"fanout", "taken"}
    \/ \E i \in DOMAIN cst : cst[i] = "sending" /\ cst'[i] = "delivered"

\* C23 as stated: for every message the loop takes, built-in control messages
\* included, it invokes Update once with it and goes on to forward the command.
C23_EveryMessageUpdates ==
    [][MsgTaken => model' = model + 1 /\ runPc' = "sendCmd"]_vars

\* C23, amended: for every message the loop takes other than a BatchMsg it
\* invokes Update once, forwards the command to the running executor and then
\* renders, before it takes the next message; for a BatchMsg it hands the
\* commands to the executor without Update or render.
C23_EveryMessageButBatchUpdates ==
    /\ [](runPc = "loop" => renders = model)
    /\ [][/\ MsgTaken /\ ~BatchTaken => model' = model + 1 /\ runPc' = "sendCmd"
          /\ BatchTaken => model' = model /\ renders' = renders /\ runPc' = "batch"
          /\ runPc = "sendCmd" /\ runPc' # "sendCmd" =>
                /\ runPc' = "loop"
                /\ hpc["commands"] = "run"
                /\ renders' = renders + 1
                /\ model' = model
          /\ model' # model => MsgTaken
          /\ renders' # renders => runPc = "sendCmd"]_vars

\* A sequenceMsg and the message of its first command have each gone through
\* Update, the hand-off and the render.
C23_Witness ==
    /\ jobForm = "sequence"
    /\ updLog = <<1>>
    /\ runPc = "loop"
    /\ model = 2
    /\ renders = 2

\* Run is past the loop and has made its own call of p.shutdown.
LoopEnded == runPc \in {"shutdown", "recover", "returned"}

\* The loop ended with no error while the root context was not cancelled, and
\* nothing panicked: Run went on to its own p.shutdown(false).
GracefulExit ==
    /\ runPc = "shutdown" \/ (runPc = "returned" /\ retModel # <<>>)
    /\ ~runKilled
    /\ loopErr = "nil"

LoopGone == runPc \in {"afterLoop", "shutdown", "recover", "returned"}

\* C25: once the root context is cancelled, every registered task is able to
\* complete and close its handle whatever it was doing, a signal handler that
\* is forwarding a signal included: with the loop gone, each registered task
\* has closed its handle or stands at a select that has a case for the
\* cancelled context, so the handle-wait of shutdown ends.
C25_CancelClosesEveryHandler ==
    ctxDone /\ LoopGone =>
        \A h \in handlers : hpc[h] = "closed" \/ CtxListening(h)

\* The signal the handler received last, with the flag it found.
LastSignal == sigLog[Len(sigLog)]

\* C26: the handler turns an interrupt signal into an InterruptMsg and a
\* terminate signal into a QuitMsg, which the loop then takes; signal handling
\* is suspended exactly between ReleaseTerminal and RestoreTerminal, and a
\* signal received then produces no message and leaves the handler listening.
C26_SignalsMapUnlessSuspended ==
    /\ [](ignoreSignals <=> released)
    /\ [](hpc["signals"] = "sendInterrupt" => LastSignal = <<"SIGINT", FALSE>>)
    /\ [](hpc["signals"] = "sendQuit" => LastSignal = <<"SIGTERM", FALSE>>)
    /\ [][/\ sigLog' # sigLog =>
                /\ hpc["signals"] = "listen"
                /\ sigLog'[Len(sigLog')][2] = released
                /\ IF released
                   THEN /\ hpc' = hpc
                        /\ pend' = pend
                        /\ runVars' = runVars
                   ELSE /\ sigLog'[Len(sigLog')][1] = "SIGINT" =>
                              hpc'["signals"] = "sendInterrupt"
                        /\ sigLog'[Len(sigLog')][1] = "SIGTERM" =>
                              hpc'["signals"] = "sendQuit"
          /\ hpc["signals"] = "sendInterrupt" /\ hpc'["signals"] # "sendInterrupt" =>
                loopExit' = "interrupt" /\ hpc'["signals"] = "closed"
          /\ hpc["signals"] = "sendQuit" /\ hpc'["signals"] # "sendQuit" =>
                loopExit' = "quit" /\ hpc'["signals"] = "closed"]_vars

\* A signal was received and dropped while the terminal was released; after
\* RestoreTerminal the still listening handler received SIGTERM and the loop
\* took its QuitMsg.
C26_Witness ==
    /\ Len(sigLog) = 2
    /\ sigLog[1][2] = TRUE
    /\ sigLog[2] = <<"SIGTERM", FALSE>>
    /\ ~released
    /\ loopExit = "quit"

\* The loop takes an enable message for grapheme clustering while the mode is
\* not recorded as set.
GraphemeEnableTaken ==
    /\ tick' # tick
    /\ lastMsg' = <<"enableMode", "GraphemeClustering">>
    /\ ~IsSet(modes["GraphemeClustering"])

\* C27: enabling grapheme clustering writes the set sequence together with the
\* capability query and leaves the mode table as it is; the table entry is
\* written only when a mode report arrives (or by a disable message), and a
\* report stores the value the terminal reported.
C27_GraphemeConfirmationDeferred ==
    [][/\ GraphemeEnableTaken =>
            /\ Did("write")' = << <<"write", "set+request", "GraphemeClustering">> >>
            /\ modes'["GraphemeClustering"] = modes["GraphemeClustering"]
       /\ modes'["GraphemeClustering"] # modes["GraphemeClustering"] =>
            \/ lastMsg' = <<"disableMode", "GraphemeClustering">>
            \/ /\ lastMsg'[1] = "modeReport"
               /\ modes'["GraphemeClustering"] = lastMsg'[3]]_vars

\* The message the loop took last is a request for keyboard enhancements that
\* was carried out (off Windows), resp. a KeyboardEnhancementsMsg.
KbdRequestedLast == lastMsg # <<>> /\ lastMsg[1] = "enableKbd" /\ goos # "windows"
KbdReportedLast == lastMsg # <<>> /\ lastMsg[1] = "kbdReport"

\* C28: on a program that keeps running, every request for keyboard
\* enhancements is eventually followed by a KeyboardEnhancementsMsg given to
\* Update, the terminal's report or the empty report of the timeout; a signal
\* left over from an earlier report does not end a later wait without one.
C28_RequestIsAnswered == KbdRequestedLast ~> KbdReportedLast

\* A call of stopRenderer goes through: the teardown that has reached it can
\* take the step, and so can a ReleaseTerminal called now.
StopNeverBlocks ==
    /\ Alive /\ shutPc = "renderer" => ENABLED ShutRenderer
    /\ Alive /\ Phase = "running" /\ ~released /\ nReleases < MaxReleases =>
          ENABLED ReleaseTerminal

SomeRunning == \E i \in DOMAIN cst : cst[i] = "running"

\* C30: the executor never waits for a command, and command goroutines are in
\* no registry: whatever commands are still running, the executor takes the
\* next command handed to it, the loop takes the next message sent to it, the
\* executor returns on the cancelled context, and the teardown steps that wait
\* for the registered handlers and stop the renderer go through.
C30_ExecutorNeverWaits ==
    /\ Alive /\ runPc = "batch" /\ jobPc = "fanout" /\ hpc["commands"] = "run" =>
          ENABLED LoopBatchHand
    /\ Alive /\ runPc = "sendCmd" /\ hpc["commands"] = "run" => ENABLED LoopSendCmd
    /\ Alive /\ runPc = "loop" /\ (\E i \in DOMAIN cst : cst[i] = "sending") =>
          ENABLED LoopRecvJobMsg
    /\ Alive /\ ctxDone /\ hpc["commands"] = "run" => ENABLED HandlerCtxDoneOf("commands")
    /\ Alive /\ shutPc = "handlers" /\ (\A h \in handlers : hpc[h] = "closed") =>
          ENABLED ShutHandlers
    /\ Alive /\ shutPc = "renderer" => ENABLED ShutRenderer
    /\ SomeRunning => handlers \subseteq HandlerNames /\ hSnap \subseteq HandlerNames

\* The first command of a batch never returned; the second was started after
\* it, its message went through Update, and the teardown has finished.
C30_Witness ==
    /\ jobForm = "batch"
    /\ Len(jobCmds) = 2
    /\ cst[1] = "running"
    /\ cst[2] = "delivered"
    /\ updLog = <<2>>
    /\ once = "done"

\* RestoreTerminal returns: the terminal was released and is not any more.
Restored == released /\ ~released'

\* C31: every RestoreTerminal after a ReleaseTerminal repaints: with the alt
\* screen not active, never enabled or explicitly disabled, it sends a repaint
\* message to the loop; with the alt screen active it sends none, the re-entry
\* of the alt screen doing the repaint.
C31_RestoreRepaints ==
    [][Restored =>
          IF IsSet(modes["AltScreenSaveCursor"])
          THEN pend'["other"] = pend["other"]
          ELSE pend'["other"] = pend["other"] + 1]_vars

\* The loop ended on an InterruptMsg and Run has gone on past line 947.
Interrupted == loopExit = "interrupt" /\ runPc \in {"shutdown", "returned"}

\* C32: a run ended by an InterruptMsg is torn down as a hard kill: the loop's
\* error is ErrInterrupted, so Run finds itself killed, renders no final model
\* and calls shutdown with kill set; whoever carries out the teardown, it
\* flushes no last frame, does not wait for the input read loop and puts
\* nothing on the finished channel.
C32_InterruptIsHardKill ==
    Interrupted =>
        /\ loopErr = "ErrInterrupted"
        /\ runKilled
        /\ ~finalRendered
        /\ once # "fresh"
        /\ shutKill
        /\ ~Done("flush")
        /\ ~Done("waitReadLoop")
        /\ ~Done("finished")
        /\ nFinished = 0
        /\ finishedBuf = 0

\* An InterruptMsg ended the loop, Run's own call carried out the teardown to
\* its end, input reader and renderer included, and Run has returned.
C32_Witness ==
    /\ loopExit = "interrupt"
    /\ runPc = "returned"
    /\ once = "done"
    /\ shutBy = "run"
    /\ Done("inputClose")
    /\ Done("rendererStop")
    /\ Done("restore")
====
